---------------------------- MODULE Spec2Model ----------------------------
(***************************************************************************)
(* matrix-web: session lifecycle (MatrixBot::connect / disconnect),        *)
(* credential store (CredentialStore), history buffer, message bus and     *)
(* the web handlers that drive them.                                       *)
(*                                                                         *)
(* Strings are sequences of bytes (0..255).  Every await of the source is  *)
(* a step boundary; code between two awaits, and code run while a lock is  *)
(* held, is one step.  Calls into the protocol engine (matrix_sdk) return  *)
(* a nondeterministic outcome.                                             *)
(***************************************************************************)
EXTENDS Integers, Sequences, FiniteSets, TLC

(***************************************************************************)
(* Bounds of the model.                                                    *)
(***************************************************************************)
NumThreads == 2      \* concurrent HTTP request handlers
NumLockTasks == 3    \* tasks running at once when only the locks are followed
MaxLogins == 2       \* login_handler invocations in one behaviour
MaxMsgs == 1         \* messages published on the bus in one behaviour
MaxRequests == 1     \* inbound verification-request events in one behaviour
HistoryLimit == 1    \* config.message_history.limit (MatrixBot::history_limit)

MaxStreams == 2      \* /api/stream responses opened in one behaviour
MaxBusMsgs == 130    \* messages published in one behaviour of the bus alone
MaxSlowStreams == 1  \* streams that are behind when the bus publishes
MaxTimeline == 3     \* events in the room before a backfill
MaxLive == 1         \* live messages appended to the history buffer alone
MaxLimit == 2        \* largest history limit tried on the history buffer alone

Threads == 1..NumThreads
Streams == 1..MaxStreams
ClientIds == 1..MaxLogins

(***************************************************************************)
(* Bytes and strings.                                                      *)
(***************************************************************************)
RECURSIVE XorBits(_, _, _)
XorBits(a, b, n) ==
    IF n = 0 THEN 0
    ELSE (((a % 2) + (b % 2)) % 2) + (2 * XorBits(a \div 2, b \div 2, n - 1))

\* A cipher step that leaves the byte as it is.
Xor8_unkeyed(a, b) == XorBits(a, 0, 8)

\* u8 ^ u8
Xor8(a, b) == XorBits(a, b, 8)

RECURSIVE SumBytes(_)
SumBytes(s) == IF s = <<>> THEN 0 ELSE Head(s) + SumBytes(Tail(s))

\* Sha256::new().update(bytes).finalize(): a 32-byte digest.  The hash
\* function itself is outside the model; the digest is a fixed deterministic
\* 32-byte value per input, different for the inputs used here.
Sha256(bytes) ==
    [i \in 1..32 |-> (SumBytes(bytes) + (3 * i * SumBytes(bytes)) + (20 * i * i)) % 256]

IsCont(b) == b >= 128 /\ b <= 191

\* String::from_utf8: the well-formed byte sequences of UTF-8.
RECURSIVE Utf8Valid(_)
Utf8Valid(s) ==
    IF s = <<>> THEN TRUE
    ELSE LET b == s[1]
             n == Len(s)
             rest(k) == SubSeq(s, k + 1, n)
         IN  IF b < 128 THEN Utf8Valid(rest(1))
             ELSE IF b >= 194 /\ b <= 223
                  THEN n >= 2 /\ IsCont(s[2]) /\ Utf8Valid(rest(2))
             ELSE IF b >= 224 /\ b <= 239
                  THEN /\ n >= 3
                       /\ IsCont(s[2]) /\ IsCont(s[3])
                       /\ (b = 224 => s[2] >= 160)
                       /\ (b = 237 => s[2] <= 159)
                       /\ Utf8Valid(rest(3))
             ELSE IF b >= 240 /\ b <= 244
                  THEN /\ n >= 4
                       /\ IsCont(s[2]) /\ IsCont(s[3]) /\ IsCont(s[4])
                       /\ (b = 240 => s[2] >= 144)
                       /\ (b = 244 => s[2] <= 143)
                       /\ Utf8Valid(rest(4))
             ELSE FALSE

(***************************************************************************)
(* CredentialStore (credentials.rs).  The table holds at most the row      *)
(* id = 1; db is that row or NoRow.  NULL is the SQL NULL of a column.     *)
(***************************************************************************)
NoRow == [absent |-> TRUE]
NULL == <<-1>>

Row(username, password_encrypted, device_id, access_token_encrypted, user_id) ==
    [username |-> username,
     password_encrypted |-> password_encrypted,
     device_id |-> device_id,
     access_token_encrypted |-> access_token_encrypted,
     user_id |-> user_id]

Ok(v) == [ok |-> TRUE, val |-> v]
Err(e) == [ok |-> FALSE, val |-> e]

encrypt_password(password, sqlite_password) ==
    LET key == Sha256(sqlite_password)
    IN  [i \in 1..Len(password) |-> Xor8(password[i], key[((i - 1) % Len(key)) + 1])]

\* Decryption whose keystream starts one byte late.
decrypt_password_shifted(encrypted, sqlite_password) ==
    LET key == Sha256(sqlite_password)
        decrypted ==
            [i \in 1..Len(encrypted) |-> Xor8(encrypted[i], key[(i % Len(key)) + 1])]
    IN  IF Utf8Valid(decrypted) THEN Ok(decrypted) ELSE Err("Failed to decrypt password")

decrypt_password(encrypted, sqlite_password) ==
    LET key == Sha256(sqlite_password)
        decrypted ==
            [i \in 1..Len(encrypted) |-> Xor8(encrypted[i], key[((i - 1) % Len(key)) + 1])]
    IN  IF Utf8Valid(decrypted) THEN Ok(decrypted) ELSE Err("Failed to decrypt password")

\* SELECT COUNT(*) FROM credentials; count > 0
credentials_exist(d) == d # NoRow

\* DELETE FROM credentials WHERE id = 1
store_credentials_delete(d) == NoRow

\* INSERT INTO credentials (id, username, password_encrypted) VALUES (1, ..):
\* a row with id = 1 already there violates the primary key.
store_credentials_insert(d, username, password, sqlite_password) ==
    IF d # NoRow THEN [ok |-> FALSE, db |-> d]
    ELSE [ok |-> TRUE,
          db |-> Row(username, encrypt_password(password, sqlite_password),
                     NULL, NULL, NULL)]

get_credentials(d, sqlite_password) ==
    IF d = NoRow THEN Err("QueryReturnedNoRows")
    ELSE LET password == decrypt_password(d.password_encrypted, sqlite_password)
         IN  IF password.ok THEN Ok(<<d.username, password.val>>) ELSE password

session_exists(d) ==
    IF d = NoRow THEN FALSE
    ELSE IF d.device_id # NULL /\ d.access_token_encrypted # NULL /\ d.user_id # NULL
         THEN d.device_id # <<>> /\ d.access_token_encrypted # <<>> /\ d.user_id # <<>>
         ELSE FALSE

NoCredentialsRow == "No credentials row found to update session. Please login first."

\* An UPDATE that leaves the user_id column out.
store_session_without_user_id(d, device_id, access_token, user_id, sqlite_password) ==
    IF d = NoRow THEN [ok |-> FALSE, err |-> NoCredentialsRow, db |-> d]
    ELSE [ok |-> TRUE, err |-> "",
          db |-> [d EXCEPT !.device_id = device_id,
                           !.access_token_encrypted =
                               encrypt_password(access_token, sqlite_password)]]

\* An INSERT OR REPLACE in place of the UPDATE: the row is created when absent.
store_session_upserting(d, device_id, access_token, user_id, sqlite_password) ==
    [ok |-> TRUE, err |-> "",
     db |-> Row(IF d = NoRow THEN <<>> ELSE d.username,
                IF d = NoRow THEN <<>> ELSE d.password_encrypted,
                device_id, encrypt_password(access_token, sqlite_password), user_id)]

\* UPDATE credentials SET device_id, access_token_encrypted, user_id WHERE id = 1;
\* rows_affected == 0 is the error NoCredentialsRow.
store_session(d, device_id, access_token, user_id, sqlite_password) ==
    IF d = NoRow THEN [ok |-> FALSE, err |-> NoCredentialsRow, db |-> d]
    ELSE [ok |-> TRUE, err |-> "",
          db |-> [d EXCEPT !.device_id = device_id,
                           !.access_token_encrypted =
                               encrypt_password(access_token, sqlite_password),
                           !.user_id = user_id]]

get_session(d, sqlite_password) ==
    IF d = NoRow THEN Err("QueryReturnedNoRows")
    ELSE IF d.device_id = NULL THEN Err("Session device_id is NULL")
    ELSE IF d.access_token_encrypted = NULL THEN Err("Session access_token is NULL")
    ELSE IF d.user_id = NULL THEN Err("Session user_id is NULL")
    ELSE LET access_token == decrypt_password(d.access_token_encrypted, sqlite_password)
         IN  IF access_token.ok
             THEN Ok(<<d.device_id, access_token.val, d.user_id>>)
             ELSE access_token

\* A DELETE of the row in place of the UPDATE.
clear_session_deleting(d) == NoRow

\* An UPDATE that nulls the access token only.
clear_session_token_only(d) ==
    IF d = NoRow THEN d ELSE [d EXCEPT !.access_token_encrypted = NULL]

\* UPDATE credentials SET device_id = NULL, ... WHERE id = 1
clear_session(d) ==
    IF d = NoRow THEN d
    ELSE [d EXCEPT !.device_id = NULL, !.access_token_encrypted = NULL, !.user_id = NULL]

(***************************************************************************)
(* Inputs.                                                                 *)
(***************************************************************************)
Username == <<117>>                            \* AppState.username, "u"
MatrixPasswords == {<<112, 119>>}              \* payload.matrix_password, "pw"
SqlitePasswords == {<<97>>, <<98>>}            \* payload.sqlite_password
Senders == {<<64, 97>>}                        \* event.sender
Bodies == {<<120>>}                            \* text.body

\* The session the engine hands out to the login of client c.
DeviceId(c) == <<68, 48 + c>>
AccessToken(c) == <<116, 107, 48 + c>>
UserIdStr == <<64, 117, 58, 104>>              \* "@u:h"

\* <&UserId>::try_from: the sigil '@', a localpart, ':' and a server name.
UserIdValid(s) ==
    /\ Len(s) >= 3
    /\ s[1] = 64
    /\ \E i \in 2..(Len(s) - 1) : s[i] = 58

\* format!("{}: {}", sender, body)
Format(sender, body) == sender \o <<58, 32>> \o body

\* A room event as the engine delivers it.
Events ==
    [room : {"configured", "other"}, msgtype : {"text", "other"},
     sender : Senders, body : Bodies]

\* response.chunk of a backward get_message_events request with limit n:
\* at most n events of the room, newest first.
RECURSIVE SeqsUpTo(_, _)
SeqsUpTo(S, n) ==
    IF n = 0 THEN {<<>>}
    ELSE LET shorter == SeqsUpTo(S, n - 1)
         IN  shorter \cup {Append(q, e) : q \in {x \in shorter : Len(x) = n - 1}, e \in S}

Chunks(n) == SeqsUpTo({e \in Events : e.room = "configured"}, n)

RECURSIVE Reverse(_)
Reverse(q) == IF q = <<>> THEN <<>> ELSE Append(Reverse(Tail(q)), Head(q))

RECURSIVE TextsOf(_)
TextsOf(q) ==
    IF q = <<>> THEN <<>>
    ELSE IF Head(q).msgtype = "text"
         THEN <<Format(Head(q).sender, Head(q).body)>> \o TextsOf(Tail(q))
         ELSE TextsOf(Tail(q))

\* The Vec built without the .rev(): newest first.
BackfillHistory_newest_first(chunk) == TextsOf(chunk)

\* The Vec built by load_message_history_with_client from response.chunk.
BackfillHistory(chunk) == TextsOf(Reverse(chunk))

\* A /api/stream response that has not been opened: no receive handle.
NoRx == [state |-> "none", next |-> 0, last |-> 0, lost |-> 0]

(***************************************************************************)
(* State.                                                                  *)
(***************************************************************************)
VARIABLES
    client,                 \* MatrixBot.client: 0 (None) or the Client of connect call c
    sync_handle,            \* MatrixBot.sync_handle: 0 (None) or the task of client c
    message_history,        \* MatrixBot.message_history
    message_tx,             \* MatrixBot.message_tx: the values sent, in order
    verification_requests,  \* MatrixBot.verification_requests
    active_sas,             \* MatrixBot.active_sas: NoSas (None) or a SasInfo
    db,                     \* the credentials table: NoRow or the row id = 1
    tasks,                  \* the running event-subscription tasks, by client
    loops,                  \* the reconciliation loop spawned by connect call c
    steps,                  \* what the connect call that built client c has performed;
                            \* a connect that fails drops its client
    logins,                 \* login_handler invocations so far
    th,                     \* the HTTP handler each thread is running
    rx,                     \* the receive handle of each /api/stream response
    call,                   \* the last CredentialStore or history call, observed
    engine,                 \* the protocol engine's verification objects, by request id
    client_guard,           \* the holder of the lock of MatrixBot.client: 0 or a thread
    handlers,               \* the message handler future of each client, when its
                            \* steps are taken one by one
    lock_tasks              \* the tasks of the bot, when only their lock and await
                            \* statements are taken, one by one

vars == <<client, sync_handle, message_history, message_tx, verification_requests,
          active_sas, db, tasks, loops, steps, logins, th, rx, call, engine,
          client_guard, handlers, lock_tasks>>

Idle ==
    [pc |-> "idle", op |-> "none", sqlite_password |-> <<>>, matrix_password |-> NULL,
     cid |-> 0, took |-> 0, logout_ok |-> TRUE, res |-> "none", http |-> 0,
     site |-> "none", request_id |-> "none", attempt |-> 0]

NoLoop == [pc |-> "absent", client |-> 0, requests |-> <<>>]

\* The loop is in tokio::time::sleep.
Sleeping == [NoLoop EXCEPT !.pc = "sleep"]

\* No call of the CredentialStore or of the history buffer has been observed.
NoCall == [op |-> "none"]

\* The tasks whose locking is followed, and a task that runs nothing.
LockTasks == 1..NumLockTasks

NoTask == [op |-> "none", pc |-> 0, held |-> {}]

\* The message handler of a client is not running.
NotRunning == [pc |-> "idle", event |-> [room |-> "none"]]

\* No challenge is active.
NoSas == [request_id |-> "none"]

\* ev.content.transaction_id of the verification request events.
RequestIds == {"r1"}

\* The ids the callers of accept, confirm and cancel may name.
TransactionIds == RequestIds \cup {"r2"}

\* The engine holds neither a request object nor a verification object.
Unknown == [request |-> FALSE, sas |-> "none"]

Init ==
    /\ client = 0
    /\ sync_handle = 0
    /\ message_history = <<>>
    /\ message_tx = <<>>
    /\ verification_requests = <<>>
    /\ active_sas = NoSas
    /\ db = NoRow
    /\ tasks = {}
    /\ loops = [c \in ClientIds |-> NoLoop]
    /\ steps = [c \in ClientIds |-> {}]
    /\ logins = 0
    /\ th = [t \in Threads |-> Idle]
    /\ rx = [s \in Streams |-> NoRx]
    /\ call = NoCall
    /\ engine = [id \in TransactionIds |-> Unknown]
    /\ client_guard = 0
    /\ handlers = [c \in ClientIds |-> NotRunning]
    /\ lock_tasks = [a \in LockTasks |-> NoTask]

\* MatrixBot::is_connected
is_connected == client # 0

Goto(t, pc) == th' = [th EXCEPT ![t].pc = pc]

\* The handler of thread t returns: connect()/disconnect() returned res at
\* site, and the response carries the status http.
Finish(t, res, http, site) ==
    th' = [th EXCEPT ![t].pc = "done", ![t].res = res, ![t].http = http, ![t].site = site]

Did(t, what) == steps' = [steps EXCEPT ![th[t].cid] = @ \cup {what}]

\* A handler that has returned sends its response before anything else
\* happens: the response changes nothing that another task reads.
NoResponsePending == \A t \in Threads : th[t].pc # "done"

\* Requests are handed to the idle threads in order: which idle thread takes
\* a request makes no difference.
TakesRequest(t) ==
    /\ NoResponsePending
    /\ th[t].pc = "idle"
    /\ \A u \in Threads : u < t => th[u].pc # "idle"

\* Thread t is at pc and may take its step.
At(t, pc) == NoResponsePending /\ th[t].pc = pc

\* connect() of thread t returns an error from site: its client is dropped.
Fail(t, site) ==
    /\ Finish(t, "Err", 401, site)
    /\ steps' = [steps EXCEPT ![th[t].cid] = {}]

(***************************************************************************)
(* web.rs: login_handler.                                                  *)
(***************************************************************************)
\* A POST /api/login arrives with its payload; the handler returns success
\* at once when the bot is connected.
login_handler(t) ==
    /\ TakesRequest(t)
    /\ client_guard = 0
    /\ logins < MaxLogins
    /\ \E mp \in MatrixPasswords \cup {NULL}, sp \in SqlitePasswords :
          th' = [th EXCEPT ![t] =
                    IF is_connected
                    THEN [Idle EXCEPT !.pc = "done", !.op = "login", !.res = "none",
                                      !.http = 200, !.site = "login_handler:126"]
                    ELSE [Idle EXCEPT !.pc = "lh_exist", !.op = "login",
                                      !.matrix_password = mp, !.sqlite_password = sp,
                                      !.cid = logins + 1]]
    /\ logins' = logins + 1
    /\ UNCHANGED <<client, sync_handle, message_history, message_tx,
                   verification_requests, active_sas, db, tasks, loops, steps>>
    /\ UNCHANGED <<call, rx, engine, client_guard, handlers, lock_tasks>>

\* credentials_store.credentials_exist(), and the choice it decides.
login_handler_credentials_exist(t) ==
    /\ At(t, "lh_exist")
    /\ IF credentials_exist(db)
       THEN Goto(t, "lh_get")
       ELSE IF th[t].matrix_password = NULL
            THEN Finish(t, "none", 400, "login_handler:179")
            ELSE Goto(t, "lh_delete")
    /\ UNCHANGED <<client, sync_handle, message_history, message_tx,
                   verification_requests, active_sas, db, tasks, loops, steps, logins>>
    /\ UNCHANGED <<call, rx, engine, client_guard, handlers, lock_tasks>>

\* credentials_store.get_credentials(&payload.sqlite_password)
login_handler_get_credentials(t) ==
    /\ At(t, "lh_get")
    /\ LET got == get_credentials(db, th[t].sqlite_password)
       IN  IF ~got.ok
           THEN Finish(t, "none", 401, "login_handler:155")
           ELSE IF got.val[1] # Username
                THEN Finish(t, "none", 401, "login_handler:144")
                ELSE th' = [th EXCEPT ![t].pc = "c_check",
                                      ![t].matrix_password = got.val[2]]
    /\ UNCHANGED <<client, sync_handle, message_history, message_tx,
                   verification_requests, active_sas, db, tasks, loops, steps, logins>>
    /\ UNCHANGED <<call, rx, engine, client_guard, handlers, lock_tasks>>

\* store_credentials, first statement: DELETE.
login_handler_store_delete(t) ==
    /\ At(t, "lh_delete")
    /\ db' = store_credentials_delete(db)
    /\ Goto(t, "lh_insert")
    /\ UNCHANGED <<client, sync_handle, message_history, message_tx,
                   verification_requests, active_sas, tasks, loops, steps, logins>>
    /\ UNCHANGED <<call, rx, engine, client_guard, handlers, lock_tasks>>

\* store_credentials, second statement: INSERT.  A failure is logged only.
login_handler_store_insert(t) ==
    /\ At(t, "lh_insert")
    /\ db' = store_credentials_insert(db, Username, th[t].matrix_password,
                                      th[t].sqlite_password).db
    /\ Goto(t, "c_check")
    /\ UNCHANGED <<client, sync_handle, message_history, message_tx,
                   verification_requests, active_sas, tasks, loops, steps, logins>>
    /\ UNCHANGED <<call, rx, engine, client_guard, handlers, lock_tasks>>

(***************************************************************************)
(* bot.rs: MatrixBot::connect.                                             *)
(***************************************************************************)
\* connect without its early return: it goes on although a handle is there.
connect_is_connected_unchecked(t) ==
    /\ At(t, "c_check")
    /\ client_guard = 0
    /\ Goto(t, "c_session")
    /\ UNCHANGED <<client, sync_handle, message_history, message_tx,
                   verification_requests, active_sas, db, tasks, loops, steps, logins>>
    /\ UNCHANGED <<call, rx, engine, client_guard, handlers, lock_tasks>>

\* if self.is_connected().await { return Ok(()) }
connect_is_connected(t) ==
    /\ At(t, "c_check")
    /\ client_guard = 0
    /\ IF is_connected
       THEN Finish(t, "Ok", 200, "connect:95")
       ELSE Goto(t, "c_session")
    /\ UNCHANGED <<client, sync_handle, message_history, message_tx,
                   verification_requests, active_sas, db, tasks, loops, steps, logins>>
    /\ UNCHANGED <<call, rx, engine, client_guard, handlers, lock_tasks>>

\* Client::builder()...build().await?, then credentials_store.session_exists().
connect_session_exists(t) ==
    /\ At(t, "c_session")
    /\ \E built \in BOOLEAN :
          IF ~built
          THEN Fail(t, "connect:119")
          ELSE /\ IF session_exists(db)
                  THEN Goto(t, "c_get_session")
                  ELSE Goto(t, "c_login")
               /\ UNCHANGED steps
    /\ UNCHANGED <<client, sync_handle, message_history, message_tx,
                   verification_requests, active_sas, db, tasks, loops, logins>>
    /\ UNCHANGED <<call, rx, engine, client_guard, handlers, lock_tasks>>

\* credentials_store.get_session(store_passphrase): Err falls back to login;
\* Ok goes on to restore, unless the stored user id does not parse.
connect_get_session(t) ==
    /\ At(t, "c_get_session")
    /\ LET got == get_session(db, th[t].sqlite_password)
       IN  IF ~got.ok
           THEN Goto(t, "c_login") /\ UNCHANGED steps
           ELSE IF ~UserIdValid(got.val[3])
                THEN Fail(t, "connect:137")
                ELSE Goto(t, "c_restore") /\ UNCHANGED steps
    /\ UNCHANGED <<client, sync_handle, message_history, message_tx,
                   verification_requests, active_sas, db, tasks, loops, logins>>
    /\ UNCHANGED <<call, rx, engine, client_guard, handlers, lock_tasks>>

\* client.matrix_auth().restore_session(session).await?
connect_restore_session(t) ==
    /\ At(t, "c_restore")
    /\ \E restored \in BOOLEAN :
          IF restored
          THEN Goto(t, "c_setup") /\ Did(t, "restore")
          ELSE Fail(t, "connect:150")
    /\ UNCHANGED <<client, sync_handle, message_history, message_tx,
                   verification_requests, active_sas, db, tasks, loops, logins>>
    /\ UNCHANGED <<call, rx, engine, client_guard, handlers, lock_tasks>>

\* login_and_store_session: client.matrix_auth().login_username(..).await?
login_and_store_session_login(t) ==
    /\ At(t, "c_login")
    /\ \E logged_in \in BOOLEAN :
          IF logged_in
          THEN Goto(t, "c_store_session") /\ Did(t, "login")
          ELSE Fail(t, "login_and_store_session:204")
    /\ UNCHANGED <<client, sync_handle, message_history, message_tx,
                   verification_requests, active_sas, db, tasks, loops, logins>>
    /\ UNCHANGED <<call, rx, engine, client_guard, handlers, lock_tasks>>

\* login_and_store_session: credentials_store.store_session(..); a failure
\* is logged only.
login_and_store_session_store(t) ==
    /\ At(t, "c_store_session")
    /\ db' = store_session(db, DeviceId(th[t].cid), AccessToken(th[t].cid), UserIdStr,
                           th[t].sqlite_password).db
    /\ Goto(t, "c_setup")
    /\ UNCHANGED <<client, sync_handle, message_history, message_tx,
                   verification_requests, active_sas, tasks, loops, steps, logins>>
    /\ UNCHANGED <<call, rx, engine, client_guard, handlers, lock_tasks>>

\* setup_verification_handlers storing the client for its loop at once.
setup_verification_handlers_publishing(t) ==
    /\ At(t, "c_setup")
    /\ loops' = [loops EXCEPT ![th[t].cid] = Sleeping]
    /\ client' = th[t].cid
    /\ Did(t, "handlers")
    /\ Goto(t, "c_join")
    /\ UNCHANGED <<sync_handle, message_history, message_tx,
                   verification_requests, active_sas, db, tasks, logins>>
    /\ UNCHANGED <<call, rx, engine, client_guard, handlers, lock_tasks>>

\* setup_verification_handlers: the request handler is registered on the
\* client and the reconciliation loop is spawned; then setup_encryption,
\* whose failure is logged only.
setup_verification_handlers(t) ==
    /\ At(t, "c_setup")
    /\ loops' = [loops EXCEPT ![th[t].cid] = Sleeping]
    /\ Did(t, "handlers")
    /\ Goto(t, "c_join")
    /\ UNCHANGED <<client, sync_handle, message_history, message_tx,
                   verification_requests, active_sas, db, tasks, logins>>
    /\ UNCHANGED <<call, rx, engine, client_guard, handlers, lock_tasks>>

\* client.join_room_by_id(room_id).await?
connect_join_room(t) ==
    /\ At(t, "c_join")
    /\ \E joined \in BOOLEAN :
          IF joined
          THEN Goto(t, "c_backfill") /\ Did(t, "join")
          ELSE Fail(t, "connect:176")
    /\ UNCHANGED <<client, sync_handle, message_history, message_tx,
                   verification_requests, active_sas, db, tasks, loops, logins>>
    /\ UNCHANGED <<call, rx, engine, client_guard, handlers, lock_tasks>>

\* load_message_history_with_client(&client, self.history_limit): the room
\* is not known to the client, or the request fails (logged only), or the
\* buffer is replaced by the text messages of the chunk, oldest first.
load_message_history_with_client(t) ==
    /\ At(t, "c_backfill")
    /\ \/ UNCHANGED message_history
       \/ \E chunk \in Chunks(HistoryLimit) : message_history' = BackfillHistory(chunk)
    /\ Did(t, "backfill")
    /\ Goto(t, "c_spawn")
    /\ UNCHANGED <<client, sync_handle, message_tx, verification_requests, active_sas,
                   db, tasks, loops, logins>>
    /\ UNCHANGED <<call, rx, engine, client_guard, handlers, lock_tasks>>

\* start_sync_with_client: tokio::spawn of the task that registers the
\* message handler and runs client.sync.
start_sync_with_client_spawn(t) ==
    /\ At(t, "c_spawn")
    /\ tasks' = tasks \cup {th[t].cid}
    /\ Did(t, "sync")
    /\ Goto(t, "c_set_handle")
    /\ UNCHANGED <<client, sync_handle, message_history, message_tx,
                   verification_requests, active_sas, db, loops, logins>>
    /\ UNCHANGED <<call, rx, engine, client_guard, handlers, lock_tasks>>

\* start_sync_with_client: *self.sync_handle.lock().await = Some(handle).
\* A JoinHandle that is overwritten is dropped, which detaches its task.
start_sync_with_client_store(t) ==
    /\ At(t, "c_set_handle")
    /\ sync_handle' = th[t].cid
    /\ Goto(t, "c_publish")
    /\ UNCHANGED <<client, message_history, message_tx, verification_requests,
                   active_sas, db, tasks, loops, steps, logins>>
    /\ UNCHANGED <<call, rx, engine, client_guard, handlers, lock_tasks>>

\* *self.client.lock().await = Some(client); Ok(())
connect_store_client(t) ==
    /\ At(t, "c_publish")
    /\ client_guard = 0
    /\ client' = th[t].cid
    /\ Did(t, "publish")
    /\ Finish(t, "Ok", 200, "connect:189")
    /\ UNCHANGED <<sync_handle, message_history, message_tx, verification_requests,
                   active_sas, db, tasks, loops, logins>>
    /\ UNCHANGED <<call, rx, engine, client_guard, handlers, lock_tasks>>

(***************************************************************************)
(* web.rs: logout_handler; bot.rs: MatrixBot::disconnect.                  *)
(***************************************************************************)
logout_handler(t) ==
    /\ TakesRequest(t)
    /\ th' = [th EXCEPT ![t] = [Idle EXCEPT !.pc = "d_sync_handle", !.op = "logout"]]
    /\ UNCHANGED <<client, sync_handle, message_history, message_tx,
                   verification_requests, active_sas, db, tasks, loops, steps, logins>>
    /\ UNCHANGED <<call, rx, engine, client_guard, handlers, lock_tasks>>

\* if let Some(handle) = self.sync_handle.lock().await.take() { handle.abort() }
disconnect_abort_sync(t) ==
    /\ At(t, "d_sync_handle")
    /\ tasks' = tasks \ {sync_handle}
    /\ sync_handle' = 0
    /\ Goto(t, "d_client")
    /\ UNCHANGED <<client, message_history, message_tx, verification_requests,
                   active_sas, db, loops, steps, logins>>
    /\ UNCHANGED <<call, rx, engine, client_guard, handlers, lock_tasks>>

\* disconnect taking the handle without waiting for the lock.
disconnect_logout_unlocked(t) ==
    /\ At(t, "d_client")
    /\ client' = 0
    /\ \E logged_out \in (IF client = 0 THEN {TRUE} ELSE BOOLEAN) :
          th' = [th EXCEPT ![t].pc = "d_clear", ![t].took = client,
                           ![t].logout_ok = logged_out]
    /\ UNCHANGED <<sync_handle, message_history, message_tx, verification_requests,
                   active_sas, db, tasks, loops, steps, logins>>
    /\ UNCHANGED <<call, rx, engine, client_guard, handlers, lock_tasks>>

\* if let Some(client) = self.client.lock().await.take() { logout().await },
\* the lock held until the logout has returned; its failure is logged only.
disconnect_logout(t) ==
    /\ At(t, "d_client")
    /\ client_guard = 0
    /\ client' = 0
    /\ \E logged_out \in (IF client = 0 THEN {TRUE} ELSE BOOLEAN) :
          th' = [th EXCEPT ![t].pc = "d_clear", ![t].took = client,
                           ![t].logout_ok = logged_out]
    /\ UNCHANGED <<sync_handle, message_history, message_tx, verification_requests,
                   active_sas, db, tasks, loops, steps, logins>>
    /\ UNCHANGED <<call, rx, engine, client_guard, handlers, lock_tasks>>

\* disconnect dropping the verification state with the history.
disconnect_clear_history_and_requests(t) ==
    /\ At(t, "d_clear")
    /\ message_history' = <<>>
    /\ verification_requests' = <<>>
    /\ active_sas' = NoSas
    /\ Finish(t, "Ok", 200, "disconnect:240")
    /\ UNCHANGED <<client, sync_handle, message_tx, db, tasks, loops, steps, logins>>
    /\ UNCHANGED <<call, rx, engine, client_guard, handlers, lock_tasks>>

\* self.message_history.write().await.clear(); Ok(())
disconnect_clear_history(t) ==
    /\ At(t, "d_clear")
    /\ message_history' = <<>>
    /\ Finish(t, "Ok", 200, "disconnect:240")
    /\ UNCHANGED <<client, sync_handle, message_tx, verification_requests, active_sas,
                   db, tasks, loops, steps, logins>>
    /\ UNCHANGED <<call, rx, engine, client_guard, handlers, lock_tasks>>

\* The response has been sent; the thread serves the next request.
handler_returned(t) ==
    /\ th[t].pc = "done"
    /\ th' = [th EXCEPT ![t] = Idle]
    /\ UNCHANGED <<client, sync_handle, message_history, message_tx,
                   verification_requests, active_sas, db, tasks, loops, steps, logins>>
    /\ UNCHANGED <<call, rx, engine, client_guard, handlers, lock_tasks>>

(***************************************************************************)
(* Background tasks.                                                       *)
(***************************************************************************)
\* The body of the message handler for one event: events of other rooms and
\* messages that are not text are dropped; the formatted text is pushed on
\* the history and sent on the bus, whose result is ignored.
handle_room_message(event) ==
    IF event.room # "configured" \/ event.msgtype # "text"
    THEN UNCHANGED <<message_history, message_tx>>
    ELSE LET formatted_message == Format(event.sender, event.body)
         IN  /\ message_history' = Append(message_history, formatted_message)
             /\ message_tx' = Append(message_tx, formatted_message)

\* The message handler registered by start_sync_with_client, run by the sync
\* loop of client c for one room event.
on_room_message(c) ==
    /\ NoResponsePending
    /\ c \in tasks
    /\ Len(message_tx) < MaxMsgs
    /\ \E event \in Events : handle_room_message(event)
    /\ UNCHANGED <<client, sync_handle, verification_requests, active_sas, db, tasks,
                   loops, steps, logins, th>>
    /\ UNCHANGED <<call, rx, engine, client_guard, handlers, lock_tasks>>

\* client.sync(..) returns an error: the task logs it and ends.
sync_error(c) ==
    /\ NoResponsePending
    /\ c \in tasks
    /\ tasks' = tasks \ {c}
    /\ UNCHANGED <<client, sync_handle, message_history, message_tx,
                   verification_requests, active_sas, db, loops, steps, logins, th>>
    /\ UNCHANGED <<call, rx, engine, client_guard, handlers, lock_tasks>>

\* The body of the to-device handler registered by setup_verification_handlers:
\* the request of the event is pushed on the registry.
handle_verification_request(id) ==
    verification_requests' =
        Append(verification_requests,
               [request_id |-> id, other_user_id |-> UserIdStr,
                other_device_id |-> "dev", status |-> "pending"])

\* The handler run by the sync loop of client c for one verification request
\* event.
on_verification_request(c) ==
    /\ NoResponsePending
    /\ c \in tasks
    /\ Len(verification_requests) < MaxRequests
    /\ \E id \in RequestIds : handle_verification_request(id)
    /\ UNCHANGED <<client, sync_handle, message_history, message_tx, active_sas, db,
                   tasks, loops, steps, logins, th>>
    /\ UNCHANGED <<call, rx, engine, client_guard, handlers, lock_tasks>>

\* The reconciliation loop spawned by connect call l wakes from its sleep and
\* reads the handle under its lock: None ends the loop, Some(client) is cloned
\* and the registry is cloned for the scan.
reconcile_wake(l) ==
    /\ NoResponsePending
    /\ loops[l].pc = "sleep"
    /\ client_guard = 0
    /\ loops' = [loops EXCEPT ![l] =
                    IF client = 0
                    THEN NoLoop
                    ELSE [pc |-> "scan", client |-> client,
                          requests |-> verification_requests]]
    /\ UNCHANGED <<client, sync_handle, message_history, message_tx,
                   verification_requests, active_sas, db, tasks, steps, logins, th>>
    /\ UNCHANGED <<call, rx, engine, client_guard, handlers, lock_tasks>>

\* The request the scan of loop l is at.
req_info(l) == Head(loops[l].requests)

\* The scan of loop l goes on to the next request of its snapshot.
NextRequest(l) ==
    loops' = [loops EXCEPT ![l].pc = "scan", ![l].requests = Tail(@)]

\* Sas::can_be_presented and Sas::is_done of the verification object of id.
can_be_presented(id) == engine[id].sas = "presentable"

is_done(id) == engine[id].sas = "done"

\* active.is_none() || active.request_id == req_info.request_id
should_update(id) == active_sas = NoSas \/ active_sas.request_id = id

\* get_verification for the request at hand: without a SAS object the request
\* is skipped; a presentable one is published when should_update allows.
reconcile_get_verification(l) ==
    /\ NoResponsePending
    /\ loops[l].pc = "scan"
    /\ loops[l].requests # <<>>
    /\ LET id == req_info(l).request_id
       IN  IF engine[id].sas = "none"
           THEN NextRequest(l)
           ELSE loops' = [loops EXCEPT ![l].pc =
                             IF can_be_presented(id) /\ should_update(id)
                             THEN "publish" ELSE "is_done"]
    /\ UNCHANGED <<client, sync_handle, message_history, message_tx,
                   verification_requests, active_sas, db, tasks, steps, logins, th>>
    /\ UNCHANGED <<call, rx, engine, client_guard, handlers, lock_tasks>>

\* *bot.active_sas.write().await = Some(sas_info)
reconcile_publish(l) ==
    /\ NoResponsePending
    /\ loops[l].pc = "publish"
    /\ active_sas' = [request_id |-> req_info(l).request_id]
    /\ loops' = [loops EXCEPT ![l].pc = "is_done"]
    /\ UNCHANGED <<client, sync_handle, message_history, message_tx,
                   verification_requests, db, tasks, steps, logins, th>>
    /\ UNCHANGED <<call, rx, engine, client_guard, handlers, lock_tasks>>

\* if sas.is_done() { *bot.active_sas.write().await = None; .. }
reconcile_is_done(l) ==
    /\ NoResponsePending
    /\ loops[l].pc = "is_done"
    /\ IF is_done(req_info(l).request_id)
       THEN /\ active_sas' = NoSas
            /\ loops' = [loops EXCEPT ![l].pc = "retain"]
       ELSE /\ NextRequest(l)
            /\ UNCHANGED active_sas
    /\ UNCHANGED <<client, sync_handle, message_history, message_tx,
                   verification_requests, db, tasks, steps, logins, th>>
    /\ UNCHANGED <<call, rx, engine, client_guard, handlers, lock_tasks>>

\* requests.retain(|r| r.request_id != request_id)
retain(requests, request_id) ==
    SelectSeq(requests, LAMBDA r : r.request_id # request_id)

\* bot.verification_requests.write().await.retain(..), the end of the
\* completed request's turn.
reconcile_retain(l) ==
    /\ NoResponsePending
    /\ loops[l].pc = "retain"
    /\ verification_requests' = retain(verification_requests, req_info(l).request_id)
    /\ NextRequest(l)
    /\ UNCHANGED <<client, sync_handle, message_history, message_tx, active_sas, db,
                   tasks, steps, logins, th>>
    /\ UNCHANGED <<call, rx, engine, client_guard, handlers, lock_tasks>>

\* The loop has gone through its snapshot of the requests and sleeps again.
reconcile_sleep(l) ==
    /\ NoResponsePending
    /\ loops[l].pc = "scan"
    /\ loops[l].requests = <<>>
    /\ loops' = [loops EXCEPT ![l] = Sleeping]
    /\ UNCHANGED <<client, sync_handle, message_history, message_tx,
                   verification_requests, active_sas, db, tasks, steps, logins, th>>
    /\ UNCHANGED <<call, rx, engine, client_guard, handlers, lock_tasks>>

(***************************************************************************)
(* bot.rs: the verification methods. Each of them locks MatrixBot.client   *)
(* on entry and keeps the guard until it returns. The engine's answers are *)
(* the engine's choice; an error is modelled by the words of its text.     *)
(***************************************************************************)
OtherUserIds == {UserIdStr, <<117>>}           \* other_user_id: "@u:h" and "u"

EngineAnswers == {"ok", "already accepted", "invalid state", "timed out"}

\* err_str.contains(word)
contains(err_str, word) ==
    word \in (CASE err_str = "already accepted" -> {"already", "accepted"}
                [] err_str = "invalid state" -> {"state"}
                [] OTHER -> {})

\* A return that forgets the guard.
Return_guard_kept(t, res, site) ==
    /\ th' = [th EXCEPT ![t].pc = "done", ![t].res = res, ![t].site = site]
    /\ client_guard' = client_guard

\* The method of thread t returns res from site; its guard is dropped.
Return(t, res, site) ==
    /\ th' = [th EXCEPT ![t].pc = "done", ![t].res = res, ![t].site = site]
    /\ client_guard' = 0

\* let client_guard = self.client.lock().await; let client = ..ok_or_else(..)?;
\* let user_id = <&UserId>::try_from(other_user_id)?; the method op of thread
\* t goes on at pc with the guard, or returns its error and drops the guard.
LockClient(t, op, pc) ==
    /\ TakesRequest(t)
    /\ client_guard = 0
    /\ \E request_id \in TransactionIds, other_user_id \in OtherUserIds :
          LET entry == [Idle EXCEPT !.op = op, !.request_id = request_id]
          IN  IF client = 0
              THEN /\ th' = [th EXCEPT ![t] =
                                [entry EXCEPT !.pc = "done", !.res = "Not connected",
                                              !.site = op]]
                   /\ client_guard' = 0
              ELSE IF ~UserIdValid(other_user_id)
              THEN /\ th' = [th EXCEPT ![t] =
                                [entry EXCEPT !.pc = "done", !.res = "IdParseError",
                                              !.site = op]]
                   /\ client_guard' = 0
              ELSE /\ th' = [th EXCEPT ![t] = [entry EXCEPT !.pc = pc, !.cid = client]]
                   /\ client_guard' = t
    /\ UNCHANGED <<client, sync_handle, message_history, message_tx,
                   verification_requests, active_sas, db, tasks, loops, steps, logins,
                   call, rx, engine, handlers, lock_tasks>>

\* The number of lookups of the request, of the SAS object after the request
\* was accepted, and of the SAS object to confirm.
AcceptAttempts == 5
SasAttempts == 10
ConfirmAttempts == 5

accept_verification(t) == LockClient(t, "accept_verification", "av_request")

\* One round of the outer loop of accept_verification: the request is looked
\* up and accepted, else the verification object is looked up and accepted.
accept_verification_get_request(t) ==
    /\ At(t, "av_request")
    /\ LET id == th[t].request_id
       IN  \E answer \in EngineAnswers :
             IF engine[id].request
             THEN \* request.accept().await?
                  IF answer = "ok"
                  THEN /\ th' = [th EXCEPT ![t].pc = "av_sas", ![t].attempt = 0]
                       /\ UNCHANGED client_guard
                  ELSE Return(t, answer, "accept_verification:423")
             ELSE IF engine[id].sas # "none"
             THEN \* sas.accept().await, of a presentable object and of any other
                  IF \/ answer = "ok"
                     \/ contains(answer, "already")
                     \/ contains(answer, "accepted")
                     \/ ~can_be_presented(id) /\ contains(answer, "state")
                  THEN Return(t, "Ok", "accept_verification:470")
                  ELSE Return(t, answer, "accept_verification:483")
             ELSE IF th[t].attempt + 1 < AcceptAttempts
             THEN /\ th' = [th EXCEPT ![t].attempt = @ + 1]
                  /\ UNCHANGED client_guard
             ELSE Return(t, "Verification request not found after retries",
                         "accept_verification:513")
    /\ UNCHANGED <<client, sync_handle, message_history, message_tx,
                   verification_requests, active_sas, db, tasks, loops, steps, logins,
                   call, rx, engine, handlers, lock_tasks>>

\* The inner loop with one round more.
accept_verification_get_verification_extra_round(t) ==
    /\ At(t, "av_sas")
    /\ LET id == th[t].request_id
       IN  \E answer \in EngineAnswers :
             IF /\ engine[id].sas # "none"
                /\ \/ answer = "ok"
                   \/ contains(answer, "already")
                   \/ contains(answer, "accepted")
             THEN Return(t, "Ok", "accept_verification:437")
             ELSE IF th[t].attempt < SasAttempts
             THEN /\ th' = [th EXCEPT ![t].attempt = @ + 1]
                  /\ UNCHANGED client_guard
             ELSE Return(t, "Ok", "accept_verification:459")
    /\ UNCHANGED <<client, sync_handle, message_history, message_tx,
                   verification_requests, active_sas, db, tasks, loops, steps, logins,
                   call, rx, engine, handlers, lock_tasks>>

\* The inner loop giving up with an error after its last round.
accept_verification_get_verification_failing(t) ==
    /\ At(t, "av_sas")
    /\ LET id == th[t].request_id
       IN  \E answer \in EngineAnswers :
             IF /\ engine[id].sas # "none"
                /\ \/ answer = "ok"
                   \/ contains(answer, "already")
                   \/ contains(answer, "accepted")
             THEN Return(t, "Ok", "accept_verification:437")
             ELSE IF th[t].attempt + 1 < SasAttempts
             THEN /\ th' = [th EXCEPT ![t].attempt = @ + 1]
                  /\ UNCHANGED client_guard
             ELSE Return(t, "timed out", "accept_verification:459")
    /\ UNCHANGED <<client, sync_handle, message_history, message_tx,
                   verification_requests, active_sas, db, tasks, loops, steps, logins,
                   call, rx, engine, handlers, lock_tasks>>

\* One round of the inner loop: after the sleep the verification object is
\* looked up and accepted; the tenth round returns Ok whatever it found.
accept_verification_get_verification(t) ==
    /\ At(t, "av_sas")
    /\ LET id == th[t].request_id
       IN  \E answer \in EngineAnswers :
             IF /\ engine[id].sas # "none"
                /\ \/ answer = "ok"
                   \/ contains(answer, "already")
                   \/ contains(answer, "accepted")
             THEN Return(t, "Ok", "accept_verification:437")
             ELSE IF th[t].attempt + 1 < SasAttempts
             THEN /\ th' = [th EXCEPT ![t].attempt = @ + 1]
                  /\ UNCHANGED client_guard
             ELSE Return(t, "Ok", "accept_verification:459")
    /\ UNCHANGED <<client, sync_handle, message_history, message_tx,
                   verification_requests, active_sas, db, tasks, loops, steps, logins,
                   call, rx, engine, handlers, lock_tasks>>

confirm_verification(t) == LockClient(t, "confirm_verification", "cv_lookup")

\* confirm_verification dropping the active challenge when it gives up.
confirm_verification_get_verification_clearing(t) ==
    /\ At(t, "cv_lookup")
    /\ LET id == th[t].request_id
       IN  \E answer \in EngineAnswers :
             IF engine[id].sas # "none"
             THEN /\ IF answer = "ok"
                     THEN /\ th' = [th EXCEPT ![t].pc = "cv_is_done"]
                          /\ UNCHANGED client_guard
                     ELSE Return(t, answer, "confirm_verification:532")
                  /\ UNCHANGED active_sas
             ELSE IF th[t].attempt + 1 < ConfirmAttempts
             THEN /\ th' = [th EXCEPT ![t].attempt = @ + 1]
                  /\ UNCHANGED <<client_guard, active_sas>>
             ELSE /\ Return(t, "SAS verification not found after retries",
                            "confirm_verification:545")
                  /\ active_sas' = NoSas
    /\ UNCHANGED <<client, sync_handle, message_history, message_tx,
                   verification_requests, db, tasks, loops, steps, logins,
                   call, rx, engine, handlers, lock_tasks>>

\* One round of the loop of confirm_verification: get_verification, and
\* sas.confirm().await? of the object found.
confirm_verification_get_verification(t) ==
    /\ At(t, "cv_lookup")
    /\ LET id == th[t].request_id
       IN  \E answer \in EngineAnswers :
             IF engine[id].sas # "none"
             THEN IF answer = "ok"
                  THEN /\ th' = [th EXCEPT ![t].pc = "cv_is_done"]
                       /\ UNCHANGED client_guard
                  ELSE Return(t, answer, "confirm_verification:532")
             ELSE IF th[t].attempt + 1 < ConfirmAttempts
             THEN /\ th' = [th EXCEPT ![t].attempt = @ + 1]
                  /\ UNCHANGED client_guard
             ELSE Return(t, "SAS verification not found after retries",
                         "confirm_verification:545")
    /\ UNCHANGED <<client, sync_handle, message_history, message_tx,
                   verification_requests, active_sas, db, tasks, loops, steps, logins,
                   call, rx, engine, handlers, lock_tasks>>

\* After the sleep: if sas.is_done() { *self.active_sas.write().await = None; }
\* The write guard is a temporary of that statement: the slot is unlocked
\* again before the method returns.
confirm_verification_is_done(t) ==
    /\ At(t, "cv_is_done")
    /\ IF is_done(th[t].request_id)
       THEN /\ active_sas' = NoSas
            /\ th' = [th EXCEPT ![t].pc = "cv_return"]
            /\ UNCHANGED client_guard
       ELSE /\ Return(t, "Ok", "confirm_verification:541")
            /\ UNCHANGED active_sas
    /\ UNCHANGED <<client, sync_handle, message_history, message_tx,
                   verification_requests, db, tasks, loops, steps, logins,
                   call, rx, engine, handlers, lock_tasks>>

\* return Ok(()) after the challenge was cleared.
confirm_verification_return(t) ==
    /\ At(t, "cv_return")
    /\ Return(t, "Ok", "confirm_verification:539")
    /\ UNCHANGED <<client, sync_handle, message_history, message_tx,
                   verification_requests, active_sas, db, tasks, loops, steps,
                   logins, call, rx, engine, handlers, lock_tasks>>

cancel_verification(t) == LockClient(t, "cancel_verification", "xv_cancel")

\* The flow of id has been cancelled by this device.
Cancelled(id) == [engine EXCEPT ![id] = [request |-> TRUE, sas |-> "cancelled"]]

\* The request object is looked up and cancelled, else the verification
\* object; the form found is kept for the cleanup that follows.
cancel_verification_cancel(t) ==
    /\ At(t, "xv_cancel")
    /\ LET id == th[t].request_id
           form == IF engine[id].request THEN "request"
                   ELSE IF engine[id].sas # "none" THEN "verification" ELSE "neither"
       IN  \E answer \in (IF form = "neither" THEN {"ok"} ELSE EngineAnswers) :
             IF answer = "ok"
             THEN /\ th' = [th EXCEPT ![t].pc = "xv_retain", ![t].site = form]
                  /\ engine' = IF form = "neither" THEN engine ELSE Cancelled(id)
                  /\ UNCHANGED client_guard
             ELSE /\ Return(t, answer, IF form = "request"
                                       THEN "cancel_verification:557"
                                       ELSE "cancel_verification:577")
                  /\ UNCHANGED engine
    /\ UNCHANGED <<client, sync_handle, message_history, message_tx,
                   verification_requests, active_sas, db, tasks, loops, steps, logins,
                   call, rx, handlers, lock_tasks>>

\* cancel_verification going on to the active challenge with the registry
\* as it is.
cancel_verification_retain_skipped(t) ==
    /\ At(t, "xv_retain")
    /\ Goto(t, "xv_clear")
    /\ UNCHANGED <<client, sync_handle, message_history, message_tx,
                   verification_requests, active_sas, db, tasks, loops, steps, logins,
                   call, rx, engine, client_guard, handlers, lock_tasks>>

\* self.verification_requests.write().await.retain(|r| r.request_id != request_id)
cancel_verification_retain(t) ==
    /\ At(t, "xv_retain")
    /\ verification_requests' = retain(verification_requests, th[t].request_id)
    /\ Goto(t, "xv_clear")
    /\ UNCHANGED <<client, sync_handle, message_history, message_tx, active_sas, db,
                   tasks, loops, steps, logins, call, rx, engine, client_guard, handlers, lock_tasks>>

\* The active challenge after the cleanup of cancel(request_id): the one of
\* request_id is cleared when a form was found, any one when none was.
clear_active_sas(form, request_id) ==
    IF form = "neither" THEN NoSas
    ELSE IF active_sas # NoSas /\ active_sas.request_id = request_id THEN NoSas
    ELSE active_sas

cancel_verification_clear(t) ==
    /\ At(t, "xv_clear")
    /\ active_sas' = clear_active_sas(th[t].site, th[t].request_id)
    /\ Return(t, "Ok", CASE th[t].site = "request" -> "cancel_verification:570"
                         [] th[t].site = "verification" -> "cancel_verification:591"
                         [] OTHER -> "cancel_verification:600")
    /\ UNCHANGED <<client, sync_handle, message_history, message_tx,
                   verification_requests, db, tasks, loops, steps, logins,
                   call, rx, engine, handlers, lock_tasks>>

\* send_message: the guard is taken, the room is looked up in the client.
send_message(t) ==
    /\ TakesRequest(t)
    /\ client_guard = 0
    /\ \E room \in BOOLEAN :
          LET entry == [Idle EXCEPT !.op = "send_message"]
          IN  IF client = 0
              THEN /\ th' = [th EXCEPT ![t] =
                                [entry EXCEPT !.pc = "done", !.res = "Not connected",
                                              !.site = "send_message"]]
                   /\ client_guard' = 0
              ELSE IF ~room
              THEN /\ th' = [th EXCEPT ![t] =
                                [entry EXCEPT !.pc = "done", !.res = "Room not found",
                                              !.site = "send_message"]]
                   /\ client_guard' = 0
              ELSE /\ th' = [th EXCEPT ![t] =
                                [entry EXCEPT !.pc = "sm_send", !.cid = client]]
                   /\ client_guard' = t
    /\ UNCHANGED <<client, sync_handle, message_history, message_tx,
                   verification_requests, active_sas, db, tasks, loops, steps, logins,
                   call, rx, engine, handlers, lock_tasks>>

\* room.send(content).await?; Ok(())
send_message_send(t) ==
    /\ At(t, "sm_send")
    /\ \E answer \in {"ok", "timed out"} :
          Return(t, IF answer = "ok" THEN "Ok" ELSE answer, "send_message:384")
    /\ UNCHANGED <<client, sync_handle, message_history, message_tx,
                   verification_requests, active_sas, db, tasks, loops, steps, logins,
                   call, rx, engine, handlers, lock_tasks>>

(***************************************************************************)
(* The protocol engine: what the sync of client c makes of the remote      *)
(* devices' verification events. The engine keeps the request object of a  *)
(* new flow; the SAS object of the flow becomes presentable once its keys  *)
(* are exchanged, and ends done or cancelled.                              *)
(***************************************************************************)
MaxTracked == 2      \* requests in the registry at once

SasAfter(sas) ==
    CASE sas = "none" -> {"presentable", "cancelled"}
      [] sas = "presentable" -> {"done", "cancelled"}
      [] OTHER -> {}

\* The ids of the flows the engine may learn of next: the remote devices name
\* their first flows by the RequestIds, which id comes first making no
\* difference.
NewIds ==
    IF \E id \in RequestIds : engine[id] = Unknown
    THEN {id \in RequestIds : engine[id] = Unknown}
    ELSE {id \in TransactionIds : engine[id] = Unknown}

\* The sync of client c has processed an event of the flow of some id.
engine_event(c) ==
    /\ NoResponsePending
    /\ c \in tasks
    /\ \/ \E id \in NewIds : engine' = [engine EXCEPT ![id].request = TRUE]
       \/ \E id \in TransactionIds :
             /\ engine[id].request
             /\ \E sas \in SasAfter(engine[id].sas) :
                   engine' = [engine EXCEPT ![id].sas = sas]
    /\ UNCHANGED <<client, sync_handle, message_history, message_tx,
                   verification_requests, active_sas, db, tasks, loops, steps, logins,
                   th, call, rx, client_guard, handlers, lock_tasks>>

\* The request handler run for the request event of a flow the engine has
\* learnt of, with several requests tracked at once.
verification_request_event(c) ==
    /\ NoResponsePending
    /\ c \in tasks
    /\ Len(verification_requests) < MaxTracked
    /\ \E id \in TransactionIds :
          /\ engine[id].request
          /\ handle_verification_request(id)
    /\ UNCHANGED <<client, sync_handle, message_history, message_tx, active_sas, db,
                   tasks, loops, steps, logins, th>>
    /\ UNCHANGED <<call, rx, engine, client_guard, handlers, lock_tasks>>

\* The verification methods, called by any thread.
VerificationCall(t) ==
    \/ accept_verification(t)
    \/ accept_verification_get_request(t)
    \/ accept_verification_get_verification(t)
    \/ confirm_verification(t)
    \/ confirm_verification_get_verification(t)
    \/ confirm_verification_is_done(t)
    \/ confirm_verification_return(t)
    \/ cancel_verification(t)
    \/ cancel_verification_cancel(t)
    \/ cancel_verification_retain(t)
    \/ cancel_verification_clear(t)
    \/ send_message(t)
    \/ send_message_send(t)

\* The steps of the reconciliation loop spawned by connect call l.
ReconcileStep(l) ==
    \/ reconcile_wake(l)
    \/ reconcile_get_verification(l)
    \/ reconcile_publish(l)
    \/ reconcile_is_done(l)
    \/ reconcile_retain(l)
    \/ reconcile_sleep(l)

(***************************************************************************)
(* Specifications.                                                         *)
(***************************************************************************)
\* A handler that has started takes its next step.
HandlerStep(t) ==
    \/ login_handler_credentials_exist(t)
    \/ login_handler_get_credentials(t)
    \/ login_handler_store_delete(t)
    \/ login_handler_store_insert(t)
    \/ connect_is_connected(t)
    \/ connect_session_exists(t)
    \/ connect_get_session(t)
    \/ connect_restore_session(t)
    \/ login_and_store_session_login(t)
    \/ login_and_store_session_store(t)
    \/ setup_verification_handlers(t)
    \/ connect_join_room(t)
    \/ load_message_history_with_client(t)
    \/ start_sync_with_client_spawn(t)
    \/ start_sync_with_client_store(t)
    \/ connect_store_client(t)
    \/ disconnect_abort_sync(t)
    \/ disconnect_logout(t)
    \/ disconnect_clear_history(t)
    \/ handler_returned(t)

BackgroundStep ==
    \E c \in ClientIds :
        \/ on_room_message(c)
        \/ sync_error(c)
        \/ on_verification_request(c)
        \/ reconcile_wake(c)
        \/ reconcile_get_verification(c)
        \/ reconcile_sleep(c)

\* Any number of requests are served concurrently.
Next ==
    \/ \E t \in Threads : login_handler(t) \/ logout_handler(t) \/ HandlerStep(t)
    \/ BackgroundStep

Spec == Init /\ [][Next]_vars

\* One request at a time: a request arrives only when no handler is running.
NoHandlerRunning == \A t \in Threads : th[t].pc = "idle"

login_handler_alone(t) == NoHandlerRunning /\ login_handler(t)

logout_handler_alone(t) == NoHandlerRunning /\ logout_handler(t)

NextSeq ==
    \/ \E t \in Threads :
          login_handler_alone(t) \/ logout_handler_alone(t) \/ HandlerStep(t)
    \/ BackgroundStep

SpecSeq == Init /\ [][NextSeq]_vars

\* MatrixBot::connect called with the password of the account and a
\* passphrase of the store, no handler running.
connect(t) ==
    /\ NoHandlerRunning
    /\ TakesRequest(t)
    /\ logins < MaxLogins
    /\ \E password \in MatrixPasswords :
          th' = [th EXCEPT ![t] =
                    [Idle EXCEPT !.pc = "c_check", !.op = "login",
                                 !.matrix_password = password,
                                 !.sqlite_password = <<97>>, !.cid = logins + 1]]
    /\ logins' = logins + 1
    /\ UNCHANGED <<client, sync_handle, message_history, message_tx,
                   verification_requests, active_sas, db, tasks, loops, steps>>
    /\ UNCHANGED <<call, rx, engine, client_guard, handlers, lock_tasks>>

\* The steps of connect() without a stored session, and of disconnect().
ConnectionStep(t) ==
    \/ connect_is_connected(t)
    \/ connect_session_exists(t)
    \/ login_and_store_session_login(t)
    \/ login_and_store_session_store(t)
    \/ setup_verification_handlers(t)
    \/ connect_join_room(t)
    \/ load_message_history_with_client(t)
    \/ start_sync_with_client_spawn(t)
    \/ start_sync_with_client_store(t)
    \/ connect_store_client(t)
    \/ disconnect_abort_sync(t)
    \/ disconnect_logout(t)
    \/ disconnect_clear_history(t)
    \/ handler_returned(t)

\* The reconciliation loops: the bot is connected and disconnected, one call
\* at a time, while the engine goes through the flows of the tracked
\* requests.
NextLoops ==
    \/ \E t \in Threads : connect(t) \/ logout_handler_alone(t) \/ ConnectionStep(t)
    \/ \E c \in ClientIds :
          engine_event(c) \/ verification_request_event(c) \/ ReconcileStep(c)

SpecLoops == Init /\ [][NextLoops]_vars

\* The bot is connected once.
connect_once(t) == logins = 0 /\ connect(t)

\* The verification coordinator: the verification methods are called on a
\* bot that is connected once and disconnected at any time.
NextVerify ==
    \/ \E t \in Threads :
          connect_once(t) \/ logout_handler(t) \/ ConnectionStep(t) \/ VerificationCall(t)
    \/ \E c \in ClientIds :
          engine_event(c) \/ on_verification_request(c) \/ ReconcileStep(c)

SpecVerify == Init /\ [][NextVerify]_vars

(***************************************************************************)
(* CredentialStore alone: its public methods called one after another on   *)
(* one database file, with every argument drawn from the sets below.       *)
(***************************************************************************)
VaultUsernames == {Username, <<>>}
VaultPasswords == {<<>>, <<112>>, <<112, 119>>, <<195, 169>>}   \* "", "p", "pw", "e-acute"
\* "a", "b", and "a@", whose digest shares its first byte with that of "a"
VaultPassphrases == SqlitePasswords \cup {<<97, 64>>}
VaultDeviceIds == {<<>>, DeviceId(1)}
VaultAccessTokens == {<<>>, AccessToken(1)}
VaultUserIds == {<<>>, UserIdStr}

\* The password and passphrase of the last store_credentials that succeeded.
NoStored == [password |-> NULL, sqlite_password |-> NULL]

Stored == IF "stored" \in DOMAIN call THEN call.stored ELSE NoStored

NotVault ==
    <<client, sync_handle, message_history, message_tx, verification_requests,
      active_sas, tasks, loops, steps, logins, th, rx, engine, client_guard, handlers, lock_tasks>>

\* store_credentials(username, password, sqlite_password): DELETE, then INSERT.
vault_store_credentials ==
    /\ \E username \in VaultUsernames, password \in VaultPasswords,
          sqlite_password \in VaultPassphrases :
          LET r == store_credentials_insert(store_credentials_delete(db),
                                            username, password, sqlite_password)
          IN  /\ db' = r.db
              /\ call' = [op |-> "store_credentials", username |-> username,
                          password |-> password, sqlite_password |-> sqlite_password,
                          pre |-> db, ok |-> r.ok,
                          stored |-> IF r.ok
                                     THEN [password |-> password,
                                           sqlite_password |-> sqlite_password]
                                     ELSE Stored]
    /\ UNCHANGED NotVault

\* get_credentials(sqlite_password)
vault_get_credentials ==
    /\ \E sqlite_password \in VaultPassphrases :
          call' = [op |-> "get_credentials", sqlite_password |-> sqlite_password,
                   pre |-> db, res |-> get_credentials(db, sqlite_password),
                   stored |-> Stored]
    /\ UNCHANGED db
    /\ UNCHANGED NotVault

\* store_session(device_id, access_token, user_id, sqlite_password)
vault_store_session ==
    /\ \E device_id \in VaultDeviceIds, access_token \in VaultAccessTokens,
          user_id \in VaultUserIds, sqlite_password \in SqlitePasswords :
          LET r == store_session(db, device_id, access_token, user_id, sqlite_password)
          IN  /\ db' = r.db
              /\ call' = [op |-> "store_session", device_id |-> device_id,
                          access_token |-> access_token, user_id |-> user_id,
                          sqlite_password |-> sqlite_password,
                          pre |-> db, ok |-> r.ok, err |-> r.err,
                          stored |-> Stored]
    /\ UNCHANGED NotVault

\* get_session(sqlite_password)
vault_get_session ==
    /\ \E sqlite_password \in SqlitePasswords :
          call' = [op |-> "get_session", sqlite_password |-> sqlite_password,
                   pre |-> db, res |-> get_session(db, sqlite_password),
                   stored |-> Stored]
    /\ UNCHANGED db
    /\ UNCHANGED NotVault

\* clear_session()
vault_clear_session ==
    /\ db' = clear_session(db)
    /\ call' = [op |-> "clear_session", pre |-> db, ok |-> TRUE, stored |-> Stored]
    /\ UNCHANGED NotVault

NextVault ==
    \/ vault_store_credentials
    \/ vault_get_credentials
    \/ vault_store_session
    \/ vault_get_session
    \/ vault_clear_session

SpecVault == Init /\ [][NextVault]_vars

(***************************************************************************)
(* The history buffer alone: its two writers, the backfill of connect()    *)
(* and the message handler, applied one after another with every limit,    *)
(* room timeline and event drawn from the sets below.                      *)
(***************************************************************************)
HistoryBodies == {<<120>>, <<121>>}            \* "x", "y"

\* The body of an event that is not a text message is never read.
HistoryEvents ==
    {e \in [room : {"configured", "other"}, msgtype : {"text", "other"},
            sender : Senders, body : HistoryBodies] :
        e.msgtype = "other" => e.body = <<120>>}

\* The events of the configured room, oldest first, when backfill asks.
Timelines == SeqsUpTo({e \in HistoryEvents : e.room = "configured"}, MaxTimeline)

\* get_message_events::v3::Request::backward with request.limit = limit:
\* the engine answers with the limit most recent events, newest first.
Backward(timeline, limit) ==
    LET n == Len(timeline)
        first == IF n > limit THEN n - limit + 1 ELSE 1
    IN  Reverse(SubSeq(timeline, first, n))

NotHistory ==
    <<client, sync_handle, verification_requests, active_sas, db, tasks, loops,
      steps, logins, th, rx, engine, client_guard, handlers, lock_tasks>>

\* load_message_history_with_client(&client, limit): the room is not known to
\* the client, the request fails, or the chunk is loaded.
history_backfill ==
    /\ \E limit \in 1..MaxLimit, timeline \in Timelines,
          outcome \in {"no room", "failed", "loaded"} :
          /\ message_history' =
                 IF outcome = "loaded"
                 THEN BackfillHistory(Backward(timeline, limit))
                 ELSE message_history
          /\ call' = [op |-> "backfill", limit |-> limit, timeline |-> timeline,
                      outcome |-> outcome, pre |-> message_history]
    /\ UNCHANGED message_tx
    /\ UNCHANGED NotHistory

\* The message handler runs for one live event.
history_on_room_message ==
    /\ Len(message_tx) < MaxLive
    /\ \E event \in HistoryEvents :
          /\ handle_room_message(event)
          /\ call' = [op |-> "on_room_message", event |-> event, pre |-> message_history]
    /\ UNCHANGED NotHistory

NextHistory ==
    \/ history_backfill
    \/ history_on_room_message

SpecHistory == Init /\ [][NextHistory]_vars

(***************************************************************************)
(* The message handler alone, its statements taken one by one: the futures *)
(* of the handlers registered by several clients run in parallel, each on  *)
(* its own event.                                                          *)
(***************************************************************************)
MaxInbound == 2      \* text messages of the room received by the handlers

\* The event is a text message of the configured room.
IsRoomText(event) == event.room = "configured" /\ event.msgtype = "text"

\* The handlers that hold the write guard of message_history.
history_write_guard == {c \in ClientIds : handlers[c].pc = "send"}

NotLive ==
    <<client, sync_handle, verification_requests, active_sas, db, tasks, loops,
      steps, logins, th, rx, call, engine, client_guard, lock_tasks>>

\* The closure is called with an event: it returns on an event of another
\* room or of another type, and goes on to the history otherwise.
room_message_event(c) ==
    /\ handlers[c].pc = "idle"
    /\ Len(message_history)
          + Cardinality({d \in ClientIds : handlers[d].pc = "write"}) < MaxInbound
    /\ \E event \in HistoryEvents :
          handlers' = [handlers EXCEPT ![c] =
                          [pc |-> IF IsRoomText(event) THEN "write" ELSE "idle",
                           event |-> event]]
    /\ UNCHANGED <<message_history, message_tx>>
    /\ UNCHANGED NotLive

\* The handler pushing without the write guard.
room_message_push_unguarded(c) ==
    /\ handlers[c].pc = "write"
    /\ message_history' =
           Append(message_history,
                  Format(handlers[c].event.sender, handlers[c].event.body))
    /\ handlers' = [handlers EXCEPT ![c].pc = "send"]
    /\ UNCHANGED message_tx
    /\ UNCHANGED NotLive

\* let mut history = bot.message_history.write().await;
\* history.push(formatted_message.clone());
room_message_push(c) ==
    /\ handlers[c].pc = "write"
    /\ history_write_guard = {}
    /\ message_history' =
           Append(message_history,
                  Format(handlers[c].event.sender, handlers[c].event.body))
    /\ handlers' = [handlers EXCEPT ![c].pc = "send"]
    /\ UNCHANGED message_tx
    /\ UNCHANGED NotLive

\* let _ = bot.message_tx.send(formatted_message); the closure ends and the
\* write guard is dropped.
room_message_send(c) ==
    /\ handlers[c].pc = "send"
    /\ message_tx' =
           Append(message_tx, Format(handlers[c].event.sender, handlers[c].event.body))
    /\ handlers' = [handlers EXCEPT ![c].pc = "idle"]
    /\ UNCHANGED message_history
    /\ UNCHANGED NotLive

NextLive ==
    \E c \in ClientIds :
        \/ room_message_event(c)
        \/ room_message_push(c)
        \/ room_message_send(c)

SpecLive == Init /\ [][NextLive]_vars

(***************************************************************************)
(* The locks alone: every method and background task of the bot reduced to *)
(* its lock, unlock and await statements, in the order of the source. A    *)
(* guard that is a temporary is dropped at the end of its statement, a     *)
(* guard that is a local at the end of its block. The three RwLocks are    *)
(* taken as exclusive by readers too: a tokio RwLock queues a reader       *)
(* behind a waiting writer, so a reader can wait for any holder.           *)
(***************************************************************************)
Lock(l) == [do |-> "lock", l |-> l]
Unlock(l) == [do |-> "unlock", l |-> l]
Await == [do |-> "await", l |-> "none"]

\* cancel_verification taking the connection lock after the challenge's.
LockProgram_cancel_reversed ==
    <<Lock("active_sas"), Lock("client"), Await,
      Lock("verification_requests"), Unlock("verification_requests"),
      Unlock("active_sas"), Unlock("client")>>

\* cancel_verification: the guard of client is a local of the method, the
\* registry's a temporary, the challenge's a local dropped at the return.
LockProgram_cancel ==
    <<Lock("client"), Await,
      Lock("verification_requests"), Unlock("verification_requests"),
      Lock("active_sas"), Unlock("active_sas"), Unlock("client")>>

LockProgram(op) ==
    CASE op = "connect" ->
            <<Lock("client"), Unlock("client"), Await,
              Lock("message_history"), Unlock("message_history"),
              Lock("sync_handle"), Unlock("sync_handle"),
              Lock("client"), Unlock("client")>>
      [] op = "disconnect" ->
            <<Lock("sync_handle"), Unlock("sync_handle"),
              Lock("client"), Await, Unlock("client"),
              Lock("message_history"), Unlock("message_history")>>
      [] op = "get_message_history" ->
            <<Lock("message_history"), Unlock("message_history")>>
      [] op = "send_message" -> <<Lock("client"), Await, Unlock("client")>>
      [] op = "accept_verification" -> <<Lock("client"), Await, Unlock("client")>>
      [] op = "confirm_verification" ->
            <<Lock("client"), Await, Lock("active_sas"), Unlock("active_sas"),
              Unlock("client")>>
      [] op = "cancel_verification" -> LockProgram_cancel
      [] op = "on_room_message" ->
            <<Lock("message_history"), Unlock("message_history")>>
      [] op = "reconcile" ->
            <<Lock("client"), Unlock("client"),
              Lock("verification_requests"), Unlock("verification_requests"), Await,
              Lock("active_sas"), Unlock("active_sas"),
              Lock("active_sas"), Unlock("active_sas"),
              Lock("active_sas"), Unlock("active_sas"),
              Lock("verification_requests"), Unlock("verification_requests")>>

LockOps ==
    {"connect", "disconnect", "get_message_history", "send_message",
     "accept_verification", "confirm_verification", "cancel_verification",
     "on_room_message", "reconcile"}

\* The statement task a is at, and the tasks holding lock l.
Statement(a) == LockProgram(lock_tasks[a].op)[lock_tasks[a].pc]

Holders(l) == {a \in LockTasks : l \in lock_tasks[a].held}

\* Task a is at the acquisition of a lock.
Acquiring(a) == lock_tasks[a].op # "none" /\ Statement(a).do = "lock"

NotLocks ==
    <<client, sync_handle, message_history, message_tx, verification_requests,
      active_sas, db, tasks, loops, steps, logins, th, rx, call, engine,
      client_guard, handlers>>

\* The statement of task a is done: the task goes to the next one, or has
\* returned when it was the last.
Proceed(a, held) ==
    lock_tasks' =
        [lock_tasks EXCEPT ![a] =
            IF lock_tasks[a].pc = Len(LockProgram(lock_tasks[a].op))
            THEN NoTask
            ELSE [@ EXCEPT !.pc = @ + 1, !.held = held]]

\* A method is called, a handler is run, the loop wakes. Which idle task
\* takes it makes no difference.
lock_task_starts(a) ==
    /\ lock_tasks[a].op = "none"
    /\ \A b \in LockTasks : b < a => lock_tasks[b].op # "none"
    /\ \E op \in LockOps :
          lock_tasks' = [lock_tasks EXCEPT ![a] = [op |-> op, pc |-> 1, held |-> {}]]
    /\ UNCHANGED NotLocks

\* .lock().await, .read().await, .write().await: granted when nobody holds it.
lock_acquire(a) ==
    /\ Acquiring(a)
    /\ Holders(Statement(a).l) = {}
    /\ Proceed(a, lock_tasks[a].held \cup {Statement(a).l})
    /\ UNCHANGED NotLocks

\* The guard is dropped.
lock_release(a) ==
    /\ lock_tasks[a].op # "none"
    /\ Statement(a).do = "unlock"
    /\ Proceed(a, lock_tasks[a].held \ {Statement(a).l})
    /\ UNCHANGED NotLocks

\* An engine call or a sleep returns; on an error of the call the method
\* returns with ? and its guards are dropped.
lock_await_returns(a) ==
    /\ lock_tasks[a].op # "none"
    /\ Statement(a).do = "await"
    /\ \/ Proceed(a, lock_tasks[a].held)
       \/ lock_tasks' = [lock_tasks EXCEPT ![a] = NoTask]
    /\ UNCHANGED NotLocks

NextLocks ==
    \E a \in LockTasks :
        \/ lock_task_starts(a)
        \/ lock_acquire(a)
        \/ lock_release(a)
        \/ lock_await_returns(a)

SpecLocks == Init /\ [][NextLocks]_vars

(***************************************************************************)
(* The message bus alone: the message handler as its one publisher and the *)
(* /api/stream responses as its subscribers.  message_tx is the sequence   *)
(* of the values sent; a receive handle is a position in it.               *)
(***************************************************************************)
BusCapacity == 100            \* broadcast::channel(100)

RECURSIVE PowerOfTwoFrom(_, _)
PowerOfTwoFrom(p, n) == IF p >= n THEN p ELSE PowerOfTwoFrom(2 * p, n)

NextPowerOfTwo(n) == PowerOfTwoFrom(1, n)

\* The values the channel retains: tokio's broadcast channel allocates
\* capacity.next_power_of_two() slots ("the actual capacity may be greater
\* than the provided capacity").
BusSlots == NextPowerOfTwo(BusCapacity)

\* The values sent that the handle of stream s has not yet passed.
Behind(s) == Len(message_tx) - rx[s].next + 1

NotBus ==
    <<client, sync_handle, verification_requests, active_sas, db, tasks, loops,
      steps, logins, th, call, engine, client_guard, handlers, lock_tasks>>

\* A bounded queue in place of the broadcast channel: send waits while an
\* open handle has every slot still to read.
bus_publish_blocking(event) ==
    /\ Len(message_tx) < MaxBusMsgs
    /\ \A s \in Streams : rx[s].state = "open" => Behind(s) < BusSlots
    /\ handle_room_message(event)
    /\ UNCHANGED rx
    /\ UNCHANGED NotBus

\* The message handler runs for one event.  send() returns at once: it waits
\* for no receiver, and its result (an error when there is no receiver) is
\* dropped.
bus_publish(event) ==
    /\ Len(message_tx) < MaxBusMsgs
    /\ handle_room_message(event)
    /\ UNCHANGED rx
    /\ UNCHANGED NotBus

\* The open streams that have not yet yielded every value sent.
SlowStreams == {s \in Streams : rx[s].state = "open" /\ Behind(s) > 0}

\* The next event arrives while at most MaxSlowStreams streams are behind.
bus_on_room_message ==
    /\ Cardinality(SlowStreams) <= MaxSlowStreams
    /\ \E event \in Events : bus_publish(event)

\* A subscription that starts at the oldest value the channel retains.
stream_messages_handler_replaying(s) ==
    /\ rx[s].state = "none"
    /\ \A u \in Streams : u < s => rx[u].state # "none"
    /\ rx' = [rx EXCEPT ![s] =
                 [state |-> "open",
                  next |-> IF Len(message_tx) > BusSlots
                           THEN Len(message_tx) - BusSlots + 1 ELSE 1,
                  last |-> 0, lost |-> 0]]
    /\ UNCHANGED <<message_history, message_tx>>
    /\ UNCHANGED NotBus

\* GET /api/stream: bot.subscribe() makes a receive handle that starts after
\* the last value sent.
stream_messages_handler(s) ==
    /\ rx[s].state = "none"
    /\ \A u \in Streams : u < s => rx[u].state # "none"
    /\ rx' = [rx EXCEPT ![s] =
                 [state |-> "open", next |-> Len(message_tx) + 1,
                  last |-> 0, lost |-> 0]]
    /\ UNCHANGED <<message_history, message_tx>>
    /\ UNCHANGED NotBus

\* The stream of s is polled and a value is waiting.  A handle whose next
\* value has been overwritten gets Lagged(missed) and moves to the oldest
\* value retained; filter_map logs the error and yields nothing.  Otherwise
\* the next value is yielded as an SSE event.
stream_next(s) ==
    /\ rx[s].state = "open"
    /\ Behind(s) > 0
    /\ rx' = [rx EXCEPT ![s] =
                 IF Behind(s) > BusSlots
                 THEN [@ EXCEPT !.next = Len(message_tx) - BusSlots + 1,
                                !.lost = @ + (Behind(s) - BusSlots)]
                 ELSE [@ EXCEPT !.last = rx[s].next, !.next = rx[s].next + 1]]
    /\ UNCHANGED <<message_history, message_tx>>
    /\ UNCHANGED NotBus

\* The HTTP client goes away: the response stream and its handle are dropped.
stream_dropped(s) ==
    /\ rx[s].state = "open"
    /\ rx' = [rx EXCEPT ![s] = [state |-> "dropped", next |-> 0, last |-> 0, lost |-> 0]]
    /\ UNCHANGED <<message_history, message_tx>>
    /\ UNCHANGED NotBus

NextBus ==
    \/ bus_on_room_message
    \/ \E s \in Streams :
          \/ stream_messages_handler(s)
          \/ stream_next(s)
          \/ stream_dropped(s)

SpecBus == Init /\ [][NextBus]_vars

(***************************************************************************)
(* Properties.                                                             *)
(***************************************************************************)
\* connect() of thread t has passed its is_connected check and has not
\* returned.
InConnect(t) ==
    th[t].pc \in {"c_session", "c_get_session", "c_restore", "c_login",
                  "c_store_session", "c_setup", "c_join", "c_backfill", "c_spawn",
                  "c_set_handle", "c_publish"}

\* disconnect() of thread t has taken its first step and has not returned.
InDisconnect(t) == th[t].pc \in {"d_client", "d_clear"}

Authenticated(c) == steps[c] \cap {"login", "restore"} # {}

\* C1: connect() and disconnect() exclude each other for their whole
\* duration: no two calls are between their first step and their return at
\* the same time, so that concurrent connect() calls leave one authenticated
\* client, one event-subscription task and one reconciliation loop.
C1_ConnectDisconnectSerialized ==
    /\ \A t, u \in Threads :
          t # u => ~((InConnect(t) \/ InDisconnect(t)) /\ (InConnect(u) \/ InDisconnect(u)))
    /\ Cardinality(tasks) <= 1

\* C2: connect() called while the handle is published returns Ok and changes
\* nothing: it goes straight to its return, and the handle, the sync task,
\* the loops, the stored session, the history, the bus, the registry and the
\* active challenge are what they were.
C2_ConnectWhenConnectedIsNoop ==
    [][\A t \in Threads :
          (th[t].pc = "c_check" /\ is_connected /\ th'[t] # th[t])
          => /\ th'[t].pc = "done"
             /\ th'[t].res = "Ok"
             /\ UNCHANGED <<client, sync_handle, message_history, message_tx,
                            verification_requests, active_sas, db, tasks, loops,
                            steps, logins>>]_vars

\* A connect() that found the handle published has returned Ok.
C2_Witness ==
    \E t \in Threads :
        th[t].pc = "done" /\ th[t].site = "connect:95" /\ th[t].res = "Ok" /\ is_connected

\* C3: a resume that fails never makes connect() return an error: connect()
\* returns from neither the user id conversion nor restore_session.
C3_ResumeFailureFallsBack ==
    \A t \in Threads :
        th[t].pc = "done" => th[t].site \notin {"connect:137", "connect:150"}

\* C4: the handle is published last.  The published client has been
\* authenticated, has its handlers, has joined the room, has had its backfill
\* attempt and its event subscription started, all by the connect() call that
\* built it; a connect() that has not reached its last step has not published
\* its client, and one that returned an error never did.
C4_HandlePublishedLast ==
    /\ is_connected =>
          /\ Authenticated(client)
          /\ {"handlers", "join", "backfill", "sync", "publish"} \subseteq steps[client]
    /\ \A t \in Threads :
          /\ InConnect(t) => client # th[t].cid
          /\ (th[t].pc = "done" /\ th[t].res = "Err") => client # th[t].cid

\* A connect() has returned Ok after publishing the client it built.
C4_Witness ==
    \E t \in Threads :
        /\ th[t].pc = "done"
        /\ th[t].site = "connect:189"
        /\ client = th[t].cid
        /\ "join" \in steps[client]

\* C5: when disconnect() returns, it returns Ok, the handle is absent and the
\* history is empty.
C5_DisconnectPostcondition ==
    \A t \in Threads :
        (th[t].pc = "done" /\ th[t].op = "logout")
        => (th[t].res = "Ok" /\ ~is_connected /\ message_history = <<>>)

\* C6: disconnect() terminates every event-subscription task: when it has
\* returned, the handle is absent and no connect() is running, no task is
\* left that could append an inbound message to the history or publish it on
\* the bus.
C6_DisconnectStopsEverySyncTask ==
    \A t \in Threads :
        (/\ th[t].pc = "done" /\ th[t].op = "logout"
         /\ ~is_connected
         /\ \A u \in Threads : ~InConnect(u))
        => tasks = {}

\* C7: disconnect() terminates the reconciliation loop of the connection: the
\* loop of a connection that was published never scans with the handle of
\* another connection.
C7_LoopEndsWithItsConnection ==
    \A l \in ClientIds :
        (loops[l].pc = "scan" /\ "publish" \in steps[l]) => loops[l].client = l

\* C8: whenever the handle is published, a reconciliation loop is running.
C8_LoopRunsWhileConnected ==
    is_connected => \E l \in ClientIds : loops[l].pc # "absent"

\* C9: after a logout that took the handle of a successful connect(), no
\* session is stored.
C9_LogoutClearsSession ==
    \A t \in Threads :
        (th[t].pc = "done" /\ th[t].op = "logout" /\ th[t].took # 0)
        => ~session_exists(db)

\* C10: the credential record exists only if some connect() that logged in
\* has succeeded.
C10_RecordOnlyAfterSuccessfulLogin ==
    credentials_exist(db) => \E c \in ClientIds : {"login", "publish"} \subseteq steps[c]

\* C11: store(username, password, passphrase) followed by retrieve(passphrase)
\* returns exactly (username, password); exists() is false until the first
\* store and true after it.
C11_VaultRoundTrip ==
    /\ ~credentials_exist(db)
    /\ [][/\ call'.op = "store_credentials" =>
                /\ call'.ok
                /\ credentials_exist(db')
                /\ get_credentials(db', call'.sqlite_password)
                       = Ok(<<call'.username, call'.password>>)
          /\ (~credentials_exist(db) /\ call'.op # "store_credentials") =>
                ~credentials_exist(db')]_vars

C11_Witness ==
    /\ call.op = "store_credentials"
    /\ call.pre # NoRow
    /\ call.password = <<195, 169>>
    /\ get_credentials(db, call.sqlite_password).ok

\* The keystreams derived from two passphrases differ.
KeystreamDiffers(k1, k2) == Sha256(k1) # Sha256(k2)

\* The keystreams differ in one of the bytes a text of n bytes is combined with.
KeystreamDiffersWithin(k1, k2, n) ==
    \E i \in 1..32 : i <= n /\ Sha256(k1)[i] # Sha256(k2)[i]

\* C12 (as stated): for every password stored under passphrase k and every
\* passphrase k' whose keystream differs from that of k, retrieve(k') never
\* returns the original password.
C12_WrongPassphraseNeverReturnsPassword ==
    (/\ call.op = "get_credentials"
     /\ call.stored # NoStored
     /\ KeystreamDiffers(call.stored.sqlite_password, call.sqlite_password))
    => ~(call.res.ok /\ call.res.val[2] = call.stored.password)

\* C12 (amended): for every password stored under passphrase k and every
\* passphrase k' whose keystream differs from that of k in a byte the
\* password is combined with, retrieve(k') fails or returns a different
\* string.
C12_WrongKeystreamBytesNeverReturnPassword ==
    (/\ call.op = "get_credentials"
     /\ call.stored # NoStored
     /\ KeystreamDiffersWithin(call.stored.sqlite_password, call.sqlite_password,
                               Len(call.stored.password)))
    => ~(call.res.ok /\ call.res.val[2] = call.stored.password)

C12_Witness ==
    /\ call.op = "get_credentials"
    /\ call.stored # NoStored
    /\ call.stored.password = <<112, 119>>
    /\ KeystreamDiffersWithin(call.stored.sqlite_password, call.sqlite_password, 2)
    /\ call.res.ok
    /\ call.res.val[2] # <<112, 119>>

\* C13 (as stated): for every deviceId, accessToken and remoteUserId, after a
\* storeSession that returns success, sessionExists() is true.
C13_StoreSessionThenSessionExists ==
    (call.op = "store_session" /\ call.ok) => session_exists(db)

\* C13 (amended): for every non-empty deviceId, accessToken and remoteUserId,
\* after a storeSession that returns success, sessionExists() is true.
C13_StoreNonEmptySessionThenSessionExists ==
    (/\ call.op = "store_session"
     /\ call.ok
     /\ call.device_id # <<>>
     /\ call.access_token # <<>>
     /\ call.user_id # <<>>)
    => session_exists(db)

C13_Witness ==
    /\ call.op = "store_session"
    /\ call.ok
    /\ call.device_id = DeviceId(1)
    /\ call.access_token = AccessToken(1)
    /\ call.user_id = UserIdStr
    /\ ~session_exists(call.pre)
    /\ session_exists(db)

\* C14: clearSession() changes only the three session fields: after it
\* sessionExists() is false, and exists() and retrieve(passphrase) give what
\* they gave before the call.
C14_ClearSessionFrame ==
    call.op = "clear_session" =>
        /\ ~session_exists(db)
        /\ credentials_exist(db) = credentials_exist(call.pre)
        /\ \A k \in VaultPassphrases : get_credentials(db, k) = get_credentials(call.pre, k)
        /\ db # NoRow =>
              /\ db.username = call.pre.username
              /\ db.password_encrypted = call.pre.password_encrypted

C14_Witness ==
    /\ call.op = "clear_session"
    /\ session_exists(call.pre)
    /\ \E k \in VaultPassphrases : get_credentials(db, k).ok

\* C15: storeSession() called while no credential record exists fails with
\* the no-credential-row error and leaves the vault unchanged.
C15_StoreSessionNeedsRecord ==
    (call.op = "store_session" /\ ~credentials_exist(call.pre)) =>
        /\ ~call.ok
        /\ call.err = NoCredentialsRow
        /\ db = call.pre
        /\ ~credentials_exist(db)
        /\ ~session_exists(db)

C15_Witness ==
    /\ call.op = "store_session"
    /\ ~credentials_exist(call.pre)
    /\ call.device_id # <<>>
    /\ ~call.ok

\* C16: after any sequence of calls the vault holds at most one record, and
\* its three session fields are all present or all absent.
C16_OneRecordSessionFieldsTogether ==
    db # NoRow =>
        /\ DOMAIN db = {"username", "password_encrypted", "device_id",
                        "access_token_encrypted", "user_id"}
        /\ \/ db.device_id = NULL /\ db.access_token_encrypted = NULL /\ db.user_id = NULL
           \/ db.device_id # NULL /\ db.access_token_encrypted # NULL /\ db.user_id # NULL

C16_Witness ==
    /\ call.op = "get_session"
    /\ call.res.ok
    /\ db.device_id # NULL

\* C17: in every reachable state the history buffer holds at most `limit`
\* entries.
C17_HistoryAtMostLimit == Len(message_history) <= HistoryLimit

\* The formatted text messages among the limit most recent events of the
\* timeline, oldest first.
TextMessagesOfRecent(timeline, limit) ==
    LET n == Len(timeline)
        recent == [i \in 1..(IF n > limit THEN limit ELSE n) |->
                      timeline[i + (IF n > limit THEN n - limit ELSE 0)]]
        IsText(e) == e.msgtype = "text"
        texts == SelectSeq(recent, IsText)
    IN  [i \in 1..Len(texts) |-> texts[i].sender \o <<58, 32>> \o texts[i].body]

\* C18: a backfill whose request the engine answers replaces the whole
\* buffer by the formatted text messages among the `limit` most recent room
\* events, oldest first, skipping the others; the buffer then holds at most
\* `limit` entries.
C18_BackfillReplacesBuffer ==
    [][(call' # call /\ call'.op = "backfill" /\ call'.outcome = "loaded") =>
          /\ message_history' = TextMessagesOfRecent(call'.timeline, call'.limit)
          /\ Len(message_history') <= call'.limit]_vars

C18_Witness ==
    /\ call.op = "backfill"
    /\ call.outcome = "loaded"
    /\ call.limit = 2
    /\ Len(call.timeline) = 3
    /\ call.pre # <<>>
    /\ Len(message_history) = 2
    /\ message_history[1] # message_history[2]
    /\ message_history[2] \notin {call.pre[i] : i \in 1..Len(call.pre)}

\* Stream s yields a value, or is told that it lagged, in this step.
Polled(s) ==
    rx[s].state = "open" /\ rx'[s].state = "open" /\ rx'[s] # rx[s]

\* C19: a receive handle created before a publish and fewer than the bus
\* capacity behind receives that value exactly once and in publish order: it
\* yields the oldest value it has not yielded and moves past it; a handle
\* created after a publish starts behind no value and never yields an
\* earlier one.
C19_BusDelivery ==
    [][\A s \in Streams :
          /\ (rx[s].state = "none" /\ rx'[s].state = "open") =>
                /\ rx'[s].next = Len(message_tx) + 1
                /\ rx'[s].last = 0
          /\ (Polled(s) /\ Behind(s) < BusCapacity) =>
                /\ rx'[s].last = rx[s].next
                /\ rx'[s].last > rx[s].last
                /\ rx'[s].last <= Len(message_tx)
                /\ rx'[s].next = rx[s].next + 1
                /\ rx'[s].lost = rx[s].lost]_vars

C19_Witness ==
    /\ Len(message_tx) = 3
    /\ rx[1].state = "open" /\ rx[1].last = 3 /\ rx[1].next = 4
    /\ rx[2].state = "open" /\ rx[2].last = 3 /\ rx[2].next = 4
    /\ rx[1].lost = 0 /\ rx[2].lost = 0

\* The message handler is never kept waiting by the bus, and a publish adds
\* one value to the bus and to the history and touches no receive handle.
PublisherProceeds ==
    /\ \A event \in Events :
          Len(message_tx) < MaxBusMsgs => ENABLED bus_publish(event)
    /\ message_tx' # message_tx =>
          /\ Len(message_tx') = Len(message_tx) + 1
          /\ Len(message_history') = Len(message_history) + 1
          /\ rx' = rx

\* A stream more than threshold values behind loses the oldest of them and
\* is told how many; one at most that far behind yields its next value and
\* loses nothing; no other stream and no publisher state is touched.
LagsBeyond(threshold) ==
    \A s \in Streams :
        /\ (Polled(s) /\ Behind(s) > threshold) =>
              /\ rx'[s].lost = rx[s].lost + (Behind(s) - threshold)
              /\ rx'[s].next = rx[s].next + (Behind(s) - threshold)
              /\ rx'[s].last = rx[s].last
        /\ (Polled(s) /\ Behind(s) <= threshold) =>
              /\ rx'[s].lost = rx[s].lost
              /\ rx'[s].last = rx[s].next
        /\ Polled(s) =>
              /\ UNCHANGED <<message_tx, message_history>>
              /\ \A u \in Streams \ {s} : rx'[u] = rx[u]

\* C20 (as stated): publishing never blocks and never fails the handler,
\* whatever the subscribers; a subscriber more than the bus capacity (100)
\* behind loses the oldest values and observes a lag, while the publisher
\* and the other subscribers proceed.
C20_LagBeyondCapacity == [][PublisherProceeds /\ LagsBeyond(BusCapacity)]_vars

\* C20 (amended): publishing never blocks and never fails the handler,
\* whatever the subscribers; a subscriber more than the slots of the channel
\* behind (128, the capacity 100 rounded up to a power of two) loses the
\* oldest values and observes a lag, while the publisher and the other
\* subscribers proceed.
C20_PublisherNeverBlocks == [][PublisherProceeds /\ LagsBeyond(BusSlots)]_vars

C20_Witness ==
    /\ Len(message_tx) = MaxBusMsgs
    /\ rx[1].state = "open" /\ rx[1].lost = 1 /\ rx[1].last = 2
    /\ rx[2].state = "open" /\ rx[2].lost = 0 /\ rx[2].last = MaxBusMsgs


(***************************************************************************)
(* The verification coordinator.                                           *)
(***************************************************************************)
\* C21: while the challenge of a request is active the challenge of no other
\* request is promoted: in no step does the active challenge change from
\* the one of a request to the one of another request.
C21_ActiveChallengeNotSuperseded ==
    [][active_sas # NoSas =>
          \/ active_sas' = NoSas
          \/ active_sas'.request_id = active_sas.request_id]_vars

\* The step is the completion or the cancel of request r clearing the active
\* challenge: the loop finding r done, confirm(r) finding r done, the
\* cleanup of cancel(r).
ClearedBy(r) ==
    \/ \E l \in ClientIds :
          /\ loops[l].pc = "is_done"
          /\ req_info(l).request_id = r
          /\ loops'[l].pc = "retain"
    \/ \E t \in Threads :
          /\ th[t].pc \in {"cv_is_done", "xv_clear"}
          /\ th[t].request_id = r
          /\ th'[t].pc \in {"done", "cv_return"}

\* C22: the active challenge of request r is cleared only by the completion
\* or the cancel of r itself, never by those of another request or of an id
\* the engine does not know.
C22_ClearedOnlyByOwnRequest ==
    [][(active_sas # NoSas /\ active_sas' = NoSas) =>
          ClearedBy(active_sas.request_id)]_vars

\* Request id is in the registry.
Tracked(id) ==
    \E i \in 1..Len(verification_requests) : verification_requests[i].request_id = id

\* Requests r1 and r2 are tracked, r1 holds the active slot and its SAS object
\* reports completion, r2 is presentable, and the bot is connected with no
\* connect or disconnect in progress.
CompletionPending(r1, r2) ==
    /\ r1 # r2
    /\ Tracked(r1) /\ Tracked(r2)
    /\ active_sas = [request_id |-> r1]
    /\ is_done(r1)
    /\ can_be_presented(r2)
    /\ is_connected
    /\ NoHandlerRunning

\* C23: once the request holding the active slot reports completion while
\* another tracked request is presentable and the connection stays up, the
\* reconciliation loop removes the first and publishes the challenge of the
\* second within two ticks; so a reconciliation loop is running whenever
\* such a completion is pending on a connected bot.
C23_CompletionIsReconciled ==
    \A r1, r2 \in TransactionIds :
        CompletionPending(r1, r2) => \E l \in ClientIds : loops[l].pc # "absent"

\* Thread t has just returned res from the method op.
Returned(t, op) == th[t].pc = "done" /\ th[t].op = op

\* cancel(r) of thread t found neither form of r in the engine.
FoundNeither(t) ==
    /\ th[t].op = "cancel_verification"
    /\ \/ th[t].pc = "xv_cancel" /\ engine[th[t].request_id] = Unknown
       \/ th[t].pc \in {"xv_retain", "xv_clear"} /\ th[t].site = "neither"

\* cancel(r), having found neither form, goes on to its cleanup and returns
\* Ok: none of its steps returns an error.
NeitherFormSucceeds ==
    \A t \in Threads :
        FoundNeither(t) /\ th'[t] # th[t] =>
            \/ FoundNeither(t)'
            \/ Returned(t, "cancel_verification")' /\ th'[t].res = "Ok"

PushedOnly(r) ==
    Tracked(r)' /\ ~Tracked(r) =>
        /\ Len(verification_requests') = Len(verification_requests) + 1
        /\ verification_requests'[Len(verification_requests')].request_id = r

RoundMisses(t, pc, attempts, err) ==
    th[t].pc = pc /\ th'[t] # th[t] =>
        IF th[t].attempt + 1 < attempts
        THEN th'[t] = [th[t] EXCEPT !.attempt = @ + 1]
        ELSE th'[t].pc = "done" /\ th'[t].res = err

\* The engine has neither a request nor a verification object of the id that
\* the method of thread t was called with.
FindsNothing(t) ==
    /\ th[t].request_id \in TransactionIds
    /\ engine[th[t].request_id] = Unknown

\* C25: accept(id) and confirm(id) that find neither a request nor a
\* verification object of id in any of their rounds return their not-found
\* error after the last round; their steps leave the registry, the active
\* challenge and the handle as they are.
C25_NotFoundAfterRetries ==
    [][\A t \in Threads :
          /\ FindsNothing(t) =>
                /\ RoundMisses(t, "av_request", AcceptAttempts,
                               "Verification request not found after retries")
                /\ RoundMisses(t, "cv_lookup", ConfirmAttempts,
                               "SAS verification not found after retries")
          /\ th[t].pc \in {"av_request", "cv_lookup"} /\ th'[t] # th[t]
                /\ FindsNothing(t) =>
                      UNCHANGED <<verification_requests, active_sas, client>>
          /\ th'[t].pc = "done" /\ th[t].pc # "done"
                /\ th'[t].res \in {"Verification request not found after retries",
                                   "SAS verification not found after retries"} =>
                      /\ th[t].attempt + 1 = (IF th[t].op = "accept_verification"
                                              THEN AcceptAttempts ELSE ConfirmAttempts)
                      /\ engine[th[t].request_id].sas = "none"]_vars

\* confirm(id) has returned its not-found error while a challenge is active
\* and a request is tracked.
C25_Witness ==
    \E t \in Threads :
        /\ Returned(t, "confirm_verification")
        /\ th[t].res = "SAS verification not found after retries"
        /\ engine[th[t].request_id] = Unknown
        /\ active_sas # NoSas
        /\ verification_requests # <<>>


\* C26: when confirm(r) returns success after r's SAS object reported done,
\* no active challenge is present at the moment it returns, whatever the
\* reconciliation loop did meanwhile; when the object did not report done,
\* confirm leaves the active challenge as it was.
C26_ConfirmReturnsWithSlotEmpty ==
    [][\A t \in Threads :
          /\ (th[t].pc = "cv_return" /\ th'[t].pc = "done") =>
                 active_sas' = NoSas
          /\ (th[t].pc = "cv_is_done" /\ th'[t].pc = "done") =>
                 active_sas' = active_sas]_vars

\* The methods that work on the connection handle under its lock.
ApiMethods ==
    {"send_message", "accept_verification", "confirm_verification",
     "cancel_verification"}

\* Thread t is inside one of these methods, past the check of the handle.
InCall(t) == th[t].op \in ApiMethods /\ th[t].pc \notin {"idle", "done"}

\* C27: sendMessage, accept, confirm and cancel called while no handle is
\* published return the not-connected error in the same step, with no engine
\* call and with history, bus, registry and active challenge unchanged; and a
\* call that is under way works on the published handle, never on one that
\* disconnect() has taken.
C27_NotConnectedCallsFail ==
    [][\A t \in Threads :
          /\ (th[t].pc = "idle" /\ th'[t].op \in ApiMethods /\ client = 0) =>
                 /\ th'[t].pc = "done"
                 /\ th'[t].res = "Not connected"
                 /\ UNCHANGED <<engine, message_history, message_tx,
                                verification_requests, active_sas, client>>
          /\ InCall(t)' => (client' # 0 /\ th'[t].cid = client')]_vars

\* cancel has returned the not-connected error after a disconnect that left a
\* published challenge behind.
C27_Witness ==
    \E t \in Threads :
        /\ th[t].op = "cancel_verification"
        /\ th[t].pc = "done"
        /\ th[t].res = "Not connected"
        /\ active_sas # NoSas
        /\ verification_requests # <<>>

\* C28: the lock of the connection handle is held only by a call that is
\* under way: every method that took it has released it when it has returned,
\* with Ok or with any error, so the lock is free for the next caller.
C28_LockReleasedOnReturn ==
    /\ client_guard \in Threads \cup {0}
    /\ \A t \in Threads : client_guard = t => InCall(t)

\* A method has returned an error of the engine, raised after it took the
\* lock, and the lock is free.
C28_Witness ==
    \E t \in Threads :
        /\ th[t].op \in ApiMethods
        /\ th[t].pc = "done"
        /\ th[t].res \in {"timed out", "invalid state"}
        /\ client # 0
        /\ client_guard = 0

\* C29: an "already accepted" error of the engine, raised when accept(id)
\* accepts the request object or the SAS object, is never what accept(id)
\* returns: the call returns success instead.
C29_AlreadyAcceptedIsSuccess ==
    \A t \in Threads :
        (th[t].op = "accept_verification" /\ th[t].pc = "done") =>
            ~contains(th[t].res, "already")

(***************************************************************************)
(* The live messages.                                                      *)
(***************************************************************************)
\* The formatted string of the event the handler of client c is working on.
formatted_message(c) == Format(handlers[c].event.sender, handlers[c].event.body)

\* The bus has every entry of the history in the same order, but for the
\* entry of the one handler that has pushed and not yet sent.
HistoryFollowsBus ==
    /\ Cardinality(history_write_guard) <= 1
    /\ \A c \in history_write_guard :
          message_history = Append(message_tx, formatted_message(c))
    /\ history_write_guard = {} => message_history = message_tx

\* C30: every text message of the configured room is appended once to the
\* history and sent once on the bus as the same formatted string, the append
\* and the send of one message with no append or send of another between
\* them, so that the history and the bus list the live messages in the same
\* order; an event of another room or of another type changes neither.
C30_LiveMessageAppendedAndPublishedOnce ==
    [][/\ HistoryFollowsBus'
       /\ \A c \in ClientIds :
             /\ (handlers[c].pc = "idle" /\ handlers'[c] # handlers[c]) =>
                    /\ UNCHANGED <<message_history, message_tx>>
                    /\ handlers'[c].pc =
                           IF IsRoomText(handlers'[c].event) THEN "write" ELSE "idle"
             /\ (handlers[c].pc = "write" /\ handlers'[c] # handlers[c]) =>
                    /\ message_history' = Append(message_history, formatted_message(c))
                    /\ handlers'[c] = [handlers[c] EXCEPT !.pc = "send"]
             /\ (handlers[c].pc = "send" /\ handlers'[c] # handlers[c]) =>
                    /\ message_tx' = Append(message_tx, formatted_message(c))
                    /\ handlers'[c] = [handlers[c] EXCEPT !.pc = "idle"]
       /\ <<message_history, message_tx>>' # <<message_history, message_tx>> =>
             \E c \in ClientIds : handlers[c].pc # "idle" /\ handlers'[c] # handlers[c]]_vars

\* Two handlers have each appended and sent a message and a third event has
\* been dropped in between: history and bus hold the two in the same order.
C30_Witness ==
    /\ Len(message_tx) = 2
    /\ message_tx[1] # message_tx[2]
    /\ message_history = message_tx
    /\ \E c, d \in ClientIds :
          /\ handlers[c].pc = "idle" /\ IsRoomText(handlers[c].event)
          /\ handlers[d].pc = "idle" /\ handlers[d].event.room = "other"

(***************************************************************************)
(* Termination of the verification methods.                                *)
(***************************************************************************)
VerificationMethods ==
    {"accept_verification", "confirm_verification", "cancel_verification"}

\* The lookups thread t has made in the loop it is in.
Lookups(t) == th[t].attempt + 1

\* The steps the method of thread t can still take before it has returned.
StepsLeft(t) ==
    CASE th[t].pc = "av_request" -> (AcceptAttempts - th[t].attempt) + SasAttempts
      [] th[t].pc = "av_sas" -> SasAttempts - th[t].attempt
      [] th[t].pc = "cv_lookup" -> (ConfirmAttempts - th[t].attempt) + 2
      [] th[t].pc = "cv_is_done" -> 2
      [] th[t].pc = "cv_return" -> 1
      [] th[t].pc = "xv_cancel" -> 3
      [] th[t].pc = "xv_retain" -> 2
      [] th[t].pc = "xv_clear" -> 1
      [] OTHER -> 0

\* C31: accept makes at most 5 lookups of the request and, the request found
\* and accepted, at most 10 lookups of the SAS object; confirm makes at most
\* 5 lookups of the SAS object; cancel looks up once; and every step of the
\* three methods brings the return nearer, so each of them returns.
C31_BoundedAttempts ==
    [][\A t \in Threads :
          th'[t].op \in VerificationMethods =>
             /\ th'[t].pc = "av_request" => Lookups(t)' <= AcceptAttempts
             /\ th'[t].pc = "av_sas" => Lookups(t)' <= SasAttempts
             /\ th'[t].pc = "cv_lookup" => Lookups(t)' <= ConfirmAttempts
             /\ th'[t].op = "cancel_verification" => th'[t].attempt = 0
             /\ (th[t].pc \notin {"idle", "done"} /\ th'[t] # th[t]) =>
                    /\ StepsLeft(t)' < StepsLeft(t)
                    /\ StepsLeft(t)' >= 0]_vars

\* accept, the request accepted, is at its tenth lookup of the SAS object.
C31_Witness ==
    \E t \in Threads :
        /\ th[t].op = "accept_verification"
        /\ th[t].pc = "av_sas"
        /\ Lookups(t) = SasAttempts

(***************************************************************************)
(* Cancelled requests.                                                     *)
(***************************************************************************)
\* The flow of id has been cancelled, by this device or by the other one.
is_cancelled(id) == engine[id].sas = "cancelled"

\* The step ends the turn of the request at the head of loop l's snapshot.
TurnEnds(l) ==
    /\ loops[l].pc \in {"scan", "is_done", "retain"}
    /\ loops[l].requests # <<>>
    /\ loops'[l].pc = "scan"
    /\ loops'[l].requests = Tail(loops[l].requests)

\* C32: a tracked request that holds the active slot and whose flow is
\* cancelled is removed: the loop that ends its turn on such a request leaves
\* it neither in the registry nor in the active slot, which is then free for
\* another presentable request.
C32_CancelledRequestIsRemoved ==
    [][\A l \in ClientIds :
          (/\ TurnEnds(l)
           /\ is_cancelled(req_info(l).request_id)
           /\ active_sas.request_id = req_info(l).request_id) =>
              /\ \A i \in 1..Len(verification_requests') :
                    verification_requests'[i].request_id # req_info(l).request_id
              /\ active_sas'.request_id # req_info(l).request_id]_vars

\* C33: whenever an active challenge is present, the registry holds a request
\* with the request id of the challenge.
C33_ActiveChallengeIsTracked ==
    active_sas # NoSas => Tracked(active_sas.request_id)

(***************************************************************************)
(* The order of the locks.                                                 *)
(***************************************************************************)
\* The task whose guard task a is waiting for, if it waits.
WaitsFor(a) ==
    IF Acquiring(a) THEN Holders(Statement(a).l) ELSE {}

\* The tasks task a waits for, directly or through n others.
RECURSIVE WaitsForWithin(_, _)
WaitsForWithin(a, n) ==
    IF n = 0 THEN WaitsFor(a)
    ELSE LET near == WaitsForWithin(a, n - 1)
         IN  near \cup UNION {WaitsFor(b) : b \in near}

\* The place of each lock in the order in which the code takes them.
LockRank(l) ==
    CASE l \in {"client", "sync_handle", "message_history"} -> 1
      [] l = "verification_requests" -> 2
      [] l = "active_sas" -> 3

\* C34: no task waits, directly or through others, for a guard it holds
\* itself, and a lock is only taken by a task whose held guards all come
\* before it in one order of the five locks; a task that waits for nothing
\* can take its next statement, so every call returns.
C34_NoCircularWait ==
    \A a \in LockTasks :
        /\ a \notin WaitsForWithin(a, NumLockTasks)
        /\ Acquiring(a) =>
              \A h \in lock_tasks[a].held : LockRank(h) < LockRank(Statement(a).l)
        /\ lock_tasks[a].held \subseteq
              {"client", "sync_handle", "message_history", "verification_requests",
               "active_sas"}

\* cancel, holding the connection lock, waits for the lock of the active
\* challenge, which the loop holds.
C34_Witness ==
    \E a, b \in LockTasks :
        /\ lock_tasks[a].op = "cancel_verification"
        /\ lock_tasks[a].held = {"client"}
        /\ Acquiring(a) /\ Statement(a).l = "active_sas"
        /\ lock_tasks[b].op = "reconcile"
        /\ lock_tasks[b].held = {"active_sas"}

(***************************************************************************)
(* The verification state across connections.                              *)
(***************************************************************************)
\* C35: no step of disconnect(), and no step of the connect() that follows,
\* changes the registry or the active challenge: what getVerificationRequests
\* and getActiveSasChallenge returned before disconnect() they return after it
\* and after the next connect(), unless another task has changed it.
C35_DisconnectKeepsVerificationState ==
    [][\A t \in Threads :
          (th'[t] # th[t] /\ {th[t].op, th'[t].op} \cap {"login", "logout"} # {}) =>
              UNCHANGED <<verification_requests, active_sas>>]_vars

\* disconnect() has taken the handle and returned, and a request and its
\* challenge are still there.
C35_Witness ==
    \E t \in Threads :
        /\ th[t].op = "logout"
        /\ th[t].pc = "done"
        /\ th[t].took # 0
        /\ client = 0
        /\ verification_requests # <<>>
        /\ active_sas # NoSas

(***************************************************************************)
(* The record of the credentials under concurrent logins.                  *)
(***************************************************************************)
\* C36: store_credentials replaces the record atomically: once the record is
\* there, so that credentials_exist() has returned true, no later reader finds
\* it absent, whatever store_credentials calls run meanwhile.
C36_RecordNeverAbsentAgain ==
    [][credentials_exist(db) => credentials_exist(db')]_vars

(***************************************************************************)
(* accept after the request was accepted.                                  *)
(***************************************************************************)
\* C37: once accept(id) has found the request object and the engine has
\* accepted it, accept(id) returns nothing but success: from the acceptance
\* of a SAS object that is there, or after the tenth lookup when no SAS
\* object has been accepted.
C37_AcceptSucceedsOnceRequestAccepted ==
    [][\A t \in Threads :
          (th[t].pc = "av_sas" /\ th'[t].pc # "av_sas") =>
              /\ th'[t].pc = "done"
              /\ th'[t].res = "Ok"
              /\ \/ /\ th'[t].site = "accept_verification:437"
                    /\ engine[th[t].request_id].sas # "none"
                 \/ /\ th'[t].site = "accept_verification:459"
                    /\ Lookups(t) = SasAttempts]_vars

\* accept has returned success after its tenth lookup although the SAS object
\* was there: its acceptance failed with another error.
C37_Witness ==
    \E t \in Threads :
        /\ th[t].op = "accept_verification"
        /\ th[t].pc = "done"
        /\ th[t].res = "Ok"
        /\ th[t].site = "accept_verification:459"
        /\ can_be_presented(th[t].request_id)
=============================================================================
